---- MODULE Spec2Model ----
(***************************************************************************)
(* State-machine model of ssr-tools: the island export rewriter            *)
(* (src/islands/index.ts), the client-bundle plugin and its dependency     *)
(* walkers (src/vite/bundlePlugin.ts) and the nested client compiler       *)
(* (src/vite/clientCompiler.ts).                                           *)
(***************************************************************************)
EXTENDS Integers, Sequences, FiniteSets, TLC

VARIABLES
    \* ---- processIslands (src/islands/index.ts) ----
    ast,            \* Program.body: the module's top-level statement list
    ast0,           \* the module as parsed, before the first call
    functions,      \* gatherFunctions' map: name -> function/class node
    pos,            \* the main loop's index i (1-based here)
    appendQueue,    \* queued closures, each the statements it will push
    willAddImport,
    manifest,
    ipc,            \* "idle" | "scan" | "done"
    calls,          \* number of processIslands calls started on this tree
    manifest1,      \* what the first call returned
    ast1,           \* the tree the first call left
    importFrom,     \* options.importFrom ("" when not supplied)
    \* ---- bundlePlugin buildEnd / clientCompiler (src/vite) ----
    userPlugins,    \* ssrUserConfig.plugins
    root,           \* ssrResolvedConfig.root
    outDir,         \* ssrResolvedConfig.build.outDir
    initiated,      \* bundlePlugin's `initiated` flag
    bundles,        \* names of the registered ClientBundle instances
    hook,           \* buildEnd's promise: "idle" | "running" | "resolved" | "rejected"
    task,           \* per bundle, the async callback given to Promise.all
    nestedPlugins,  \* per bundle, the plugin list handed to the nested build
    nestedStarted,  \* per bundle, how many nested builds were started
    output,         \* per bundle, manifest.output returned by clientCompiler
    emitted,        \* pluginContext.emitFile calls, in order
    fs,             \* directories that exist on disk
    \* ---- dependency walkers (src/vite/bundlePlugin.ts) ----
    importedIds,            \* ModuleInfo.importedIds, per module id
    dynamicallyImportedIds, \* ModuleInfo.dynamicallyImportedIds, per module id
    noInfo,         \* ids without ModuleInfo (build) or ModuleNode.id (dev)
    clientImports,  \* keys of ClientBundle.imports (registered module ids)
    walker,         \* "build": walkImportsInModuleInfoMap, "dev": walkImportsInModuleGraph
    wpc,            \* "idle" | "walking" | "done" | "RangeError"
    stack,          \* call stack: [node, rest of the for-of loop] per frame
    importIds,      \* the walker's importIds argument
    visited,        \* the walker's visited argument
    expanded,       \* per module id, how often its out-edges were enumerated
    buildImports,   \* what walkImportsInModuleInfoMap returned
    \* ---- import registries and createClientCode (src/vite) ----
    clientIslandImports, \* the islands plugin's Map: module id -> client import
    imports,        \* ClientBundle.imports: module path -> ClientImport
    exported,       \* per module id, what its latest ssr transform got from processIslands
    transforms,     \* number of transform / addImport calls so far
    call,           \* the latest transform / addImport call and its arguments
    entriesToImports, \* the entries-to-imports map handed to createClientCode
    codeOutput,     \* what the islands plugin's createClientCode returned
    clientCode,     \* what bundlePlugin's createClientCode returned
    \* ---- isNodeIsland (src/islands/index.ts) ----
    islandNode,     \* the function, arrow or class node handed to isNodeIsland
    island,         \* the values isNodeIsland returned (none before the call)
    \* ---- file router (src/file-router/routes.ts) ----
    files,          \* buildRoutes' `files`: paths below `dir`, in the order given
    routes,         \* the sorted route list buildRoutes returns
    errorRoutes,    \* the `_error` modules buildRoutes found
    request,        \* the arguments of the latest matchRoute call
    matchedRoute,   \* what the latest matchRoute call returned
    fpc             \* "idle" | "built" | "matched" ("done": no router)

ivars == <<ast, ast0, functions, pos, appendQueue, willAddImport, manifest,
           ipc, calls, manifest1, ast1, importFrom>>

bvars == <<userPlugins, root, outDir, initiated, bundles, hook, task,
           nestedPlugins, nestedStarted, output, emitted, fs>>

wvars == <<importedIds, dynamicallyImportedIds, noInfo, clientImports, walker,
           wpc, stack, importIds, visited, expanded, buildImports>>

rvars == <<clientIslandImports, imports, exported, transforms, call,
           entriesToImports, codeOutput, clientCode>>

cvars == <<islandNode, island>>

fvars == <<files, routes, errorRoutes, request, matchedRoute, fpc>>

vars == <<ivars, bvars, wvars, rvars, cvars, fvars>>

----------------------------------------------------------------------------
(* Bounds *)

MaxStmts == 3

MaxCalls == 2

MaxBundles == 2

MaxExtraFiles == 1

MaxPlugins == 2

MaxPathLen == 2

MaxEdges == 3

MaxExports == 2

MaxTransforms == 3

\* files handed to buildRoutes
MaxFiles == 3

----------------------------------------------------------------------------
(* Generic helpers *)

Null == [type |-> "null"]

Range(s) == {s[k] : k \in 1..Len(s)}

RECURSIVE Flatten(_)
Flatten(ss) == IF ss = <<>> THEN <<>> ELSE Head(ss) \o Flatten(Tail(ss))

RemoveAt(s, k) == SubSeq(s, 1, k - 1) \o SubSeq(s, k + 1, Len(s))

ReplaceAt(s, k, x) == [s EXCEPT ![k] = x]

NoDuplicates(s) == \A j, k \in 1..Len(s) : j # k => s[j] # s[k]

----------------------------------------------------------------------------
(* Identifier names as character sequences, where the code inspects them *)

Upper == {"A","B","C","D","E","F","G","H","I","J","K","L","M",
          "N","O","P","Q","R","S","T","U","V","W","X","Y","Z"}

\* hookRegex = /(use[A-Z])/ : unanchored, matches anywhere in the name
hookRegex(name) ==
    \E k \in 1..(Len(name) - 3) :
        /\ name[k] = "u" /\ name[k+1] = "s" /\ name[k+2] = "e"
        /\ name[k+3] \in Upper

\* a table that also accepts a literal as markup
jsxReturnExpressionType_WithLiteral == {"JSXFragment", "JSXElement", "Literal"}

jsxReturnExpressionType == {"JSXFragment", "JSXElement"}

jsxRuntimeExpressions ==
    { <<"j","s","x">>, <<"j","s","x","s">>, <<"j","s","x","D","E","V">>,
      <<"_","j","s","x">>, <<"_","j","s","x","s">>,
      <<"_","j","s","x","D","E","V">> }

----------------------------------------------------------------------------
(* Syntax-tree nodes.  Every identifier is a sequence of string fragments, *)
(* so that generated names (`__${name}Island`, name + '_' + id) are built  *)
(* by concatenation as the code builds them.                               *)

Id(s) == <<s>>

NoName == <<>>

\* expressions: `inner` holds the callee names of the call expressions
\* nested inside the expression (arguments, JSX children and attributes)
Expr(t, v, c, in) == [type |-> t, value |-> v, callee |-> c, inner |-> in]

ReturnStatement(e) == [type |-> "ReturnStatement", argument |-> e]

ExpressionStatement(e) == [type |-> "ExpressionStatement", expression |-> e]

BlockStatement(stmts) == [type |-> "BlockStatement", body |-> stmts]

MethodDefinition(k, stmts) ==
    [type |-> "MethodDefinition", key |-> [type |-> "Identifier", name |-> k],
     value |-> [body |-> BlockStatement(stmts)]]

\* String.prototype.toLowerCase over the method names that occur
toLowerCase(s) == CASE s = "Render" -> "render"
                    [] s = "RENDER" -> "render"
                    [] OTHER -> s

----------------------------------------------------------------------------
(* functionParts, src/islands/index.ts:48-108 *)

findReturnExpression(fnBlock) ==
    LET rs == SelectSeq(fnBlock, LAMBDA x : x.type = "ReturnStatement")
    IN  IF rs # <<>> /\ rs[1].argument # Null THEN rs[1].argument ELSE Null

PartsFalse == [isParts |-> FALSE, fnBody |-> <<>>, returnExpression |-> Null]

PartsEmpty == [isParts |-> TRUE, fnBody |-> <<>>, returnExpression |-> Null]

Parts(b, r) == [isParts |-> TRUE, fnBody |-> b, returnExpression |-> r]

functionParts(nodeAST) ==
    IF nodeAST.type \in {"FunctionDeclaration", "FunctionExpression"} THEN
        IF nodeAST.body.type = "BlockStatement"
        THEN Parts(nodeAST.body.body, findReturnExpression(nodeAST.body.body))
        ELSE PartsEmpty
    ELSE IF nodeAST.type \in {"ClassDeclaration", "ClassExpression"} THEN
        LET renders == SelectSeq(nodeAST.body.body, LAMBDA m :
                          /\ m.type = "MethodDefinition"
                          /\ m.key.type = "Identifier"
                          /\ toLowerCase(m.key.name) = "render")
        IN  IF renders = <<>> THEN PartsEmpty
            ELSE IF renders[1].value.body.type = "BlockStatement"
                 THEN Parts(renders[1].value.body.body,
                            findReturnExpression(renders[1].value.body.body))
                 ELSE PartsEmpty
    ELSE IF nodeAST.type = "ArrowFunctionExpression" THEN
        IF nodeAST.body.type = "BlockStatement"
        THEN Parts(nodeAST.body.body, findReturnExpression(nodeAST.body.body))
        ELSE IF nodeAST.body.type = "CallExpression"
             THEN Parts(<<>>, nodeAST.body)
             ELSE PartsFalse
    ELSE PartsFalse

----------------------------------------------------------------------------
(* walker(nodeAST, { CallExpression }), src/islands/index.ts:176-206:      *)
(* the callee names of every call expression in the node's subtree         *)

ExprCalls(e) ==
    IF e = Null THEN {}
    ELSE (IF e.type = "CallExpression" /\ e.callee # NoName
          THEN {e.callee} ELSE {}) \cup e.inner

StmtCalls(st) ==
    IF st.type = "ReturnStatement" THEN ExprCalls(st.argument)
    ELSE IF st.type = "ExpressionStatement" THEN ExprCalls(st.expression)
    ELSE {}

BlockCalls(stmts) == UNION {StmtCalls(stmts[k]) : k \in 1..Len(stmts)}

walkerCallees(nodeAST) ==
    IF nodeAST.type \in {"ClassDeclaration", "ClassExpression"}
    THEN UNION {BlockCalls(nodeAST.body.body[k].value.body.body) :
                    k \in 1..Len(nodeAST.body.body)}
    ELSE IF nodeAST.body.type = "BlockStatement"
         THEN BlockCalls(nodeAST.body.body)
         ELSE ExprCalls(nodeAST.body)

----------------------------------------------------------------------------
(* isNodeIsland, src/islands/index.ts:132-209 *)

\* isNodeIsland without its two opt-ins: markup return and the hook scan only
isNodeIsland_ScanOnly(nodeAST) ==
    LET parts == functionParts(nodeAST)
        returnExpression == parts.returnExpression
    IN  /\ parts.isParts
        /\ returnExpression # Null
        /\ \/ returnExpression.type \in jsxReturnExpressionType
           \/ /\ returnExpression.type = "CallExpression"
              /\ returnExpression.callee \in jsxRuntimeExpressions
        /\ \E c \in walkerCallees(nodeAST) : hookRegex(c)

isNodeIsland(nodeAST) ==
    LET parts == functionParts(nodeAST)
        fnBody == parts.fnBody
        returnExpression == parts.returnExpression
        hasReturnJSX == returnExpression.type \in jsxReturnExpressionType
        hasReturnJSXRuntimeTransformed ==
            /\ returnExpression.type = "CallExpression"
            /\ returnExpression.callee \in jsxRuntimeExpressions
    IN  IF ~parts.isParts THEN FALSE
        ELSE IF returnExpression = Null THEN FALSE
        ELSE IF ~hasReturnJSX /\ ~hasReturnJSXRuntimeTransformed THEN FALSE
        ELSE IF /\ fnBody # <<>>
                /\ fnBody[1].type = "ExpressionStatement"
                /\ fnBody[1].expression.value = "use island" THEN TRUE
        ELSE IF /\ nodeAST.type = "ClassDeclaration"
                /\ \E k \in 1..Len(nodeAST.body.body) :
                      /\ nodeAST.body.body[k].type = "MethodDefinition"
                      /\ nodeAST.body.body[k].key.name = "componentDidMount"
             THEN TRUE
        ELSE \E c \in walkerCallees(nodeAST) : hookRegex(c)

----------------------------------------------------------------------------
(* Node constructors of src/islands/ast.ts and the statement shapes the    *)
(* rewriter distinguishes                                                  *)

Literal(v) == [type |-> "Literal", value |-> v]

Identifier(n) == [type |-> "Identifier", name |-> n]

VariableDeclarator(n, init) ==
    [type |-> "VariableDeclarator", id |-> Identifier(n), init |-> init]

\* wrapWithCallExpression, ast.ts:121-131
wrapWithCallExpression(name, astExpression, args) ==
    [type |-> "CallExpression", callee |-> Identifier(name),
     arguments |-> <<astExpression>> \o args, optional |-> FALSE]

\* createVariable, ast.ts:96-111
createVariable(name, expression) ==
    [type |-> "VariableDeclaration",
     declarations |-> <<VariableDeclarator(name, expression)>>,
     kind |-> "const"]

\* createVariableFromVariableDeclarator, ast.ts:113-119
createVariableFromVariableDeclarator(declarator) ==
    [type |-> "VariableDeclaration", declarations |-> <<declarator>>,
     kind |-> "const"]

ExportSpecifier(localName, exportedName) ==
    [type |-> "ExportSpecifier", local |-> Identifier(localName),
     exported |-> Identifier(exportedName)]

\* a named export that exports the variable under its own name
createNamedExportAST_LocalName(localName, exportedName) ==
    [type |-> "ExportNamedDeclaration", declaration |-> Null,
     specifiers |-> <<ExportSpecifier(localName, localName)>>]

\* createNamedExportAST, ast.ts:78-94
createNamedExportAST(localName, exportedName) ==
    [type |-> "ExportNamedDeclaration", declaration |-> Null,
     specifiers |-> <<ExportSpecifier(localName, exportedName)>>]

ExportNamed(declaration, specifiers) ==
    [type |-> "ExportNamedDeclaration", declaration |-> declaration,
     specifiers |-> specifiers]

ExportDefault(declaration) ==
    [type |-> "ExportDefaultDeclaration", declaration |-> declaration]

ImportDeclaration(from, specType, name) ==
    [type |-> "ImportDeclaration", source |-> Literal(from),
     specifiers |-> <<[type |-> specType, local |-> Identifier(name),
                       imported |-> Identifier(name)]>>]

\* addImportToAST, ast.ts:37-70
addImportToAST(body, name, from, named) ==
    LET hasExistingImport(child) ==
            \E k \in 1..Len(child.specifiers) :
                IF named
                THEN /\ child.specifiers[k].type = "ImportSpecifier"
                     /\ child.specifiers[k].imported.name = name
                ELSE /\ child.specifiers[k].type = "ImportDefaultSpecifier"
                     /\ child.specifiers[k].local.name = name
    IN  IF \E k \in 1..Len(body) :
              /\ body[k].type = "ImportDeclaration"
              /\ body[k].source.type = "Literal"
              /\ body[k].source.value = from
              /\ hasExistingImport(body[k])
        THEN body
        ELSE <<ImportDeclaration(from,
                   IF named THEN "ImportSpecifier"
                            ELSE "ImportDefaultSpecifier", name)>> \o body

----------------------------------------------------------------------------
(* processIslands options, as islands.transform passes them *)

functionWrapName == Id("ssr")

importNamed == TRUE

pathToSource == "/src/Component.jsx"

importId == "md5(/src/Component.jsx)"

\* componentId, src/islands/index.ts:264-266
componentId(importId_, exportName) == exportName \o <<"_", importId_>>

IslandVar(name) == <<"__">> \o name \o <<"Island">>

\* the arguments every wrapper call receives after the wrapped expression
WrapArgs(exportedName) ==
    <<Literal(exportedName), Literal(componentId(importId, exportedName)),
      Literal(pathToSource)>>

\* the two statements pushed for a named island export
IslandReference(name, exportedName) ==
    << createVariable(IslandVar(name),
           wrapWithCallExpression(functionWrapName, Identifier(name),
                                  WrapArgs(exportedName))),
       createNamedExportAST(IslandVar(name), exportedName) >>

----------------------------------------------------------------------------
(* gatherFunctions, src/islands/index.ts:489-539 *)

isFunctionOrClass(expression) ==
    expression.type \in {"FunctionExpression", "ArrowFunctionExpression",
                         "ClassExpression"}

RECURSIVE gatherDeclarators(_, _)
gatherDeclarators(declarations, acc) ==
    IF declarations = <<>> THEN acc
    ELSE LET d == Head(declarations)
             next == IF /\ d.init # Null
                        /\ isFunctionOrClass(d.init)
                        /\ d.id.name # NoName
                     THEN (d.id.name :> d.init) @@ acc
                     ELSE acc
         IN  gatherDeclarators(Tail(declarations), next)

RECURSIVE gatherFunctionsFrom(_, _)
gatherFunctionsFrom(body, acc) ==
    IF body = <<>> THEN acc
    ELSE LET node == Head(body)
             next ==
                IF node.type = "VariableDeclaration"
                THEN gatherDeclarators(node.declarations, acc)
                ELSE IF /\ node.type \in {"FunctionDeclaration",
                                          "ClassDeclaration"}
                        /\ node.id.name # NoName
                     THEN (node.id.name :> node) @@ acc
                     ELSE acc
         IN  gatherFunctionsFrom(Tail(body), next)

gatherFunctions(body) == gatherFunctionsFrom(body, <<>>)

----------------------------------------------------------------------------
(* processIslands, src/islands/index.ts:234-483, one action per iteration  *)
(* of the main loop, by the shape of the visited statement                 *)

node == ast[pos]

Scanning == ipc = "scan" /\ pos <= Len(ast)

\* `fn` alone, without asking the classifier
IsIslandBinding_AnyBinding(name) == name \in DOMAIN functions

\* `fn && isNodeIsland(fn)` (lines 280 and 340)
IsIslandBinding(name) ==
    name \in DOMAIN functions /\ isNodeIsland(functions[name])

\* lines 234-266: a call starts, on the parsed module or on the tree a
\* previous call left
Call ==
    /\ ipc \in {"idle", "done"}
    /\ calls < MaxCalls
    /\ calls' = calls + 1
    /\ functions' = gatherFunctions(ast)
    /\ appendQueue' = <<>>
    /\ willAddImport' = FALSE
    /\ manifest' = <<>>
    /\ pos' = 1
    /\ ipc' = "scan"
    /\ UNCHANGED <<ast, ast0, manifest1, ast1, importFrom, bvars, wvars, rvars, cvars, fvars>>

\* lines 272-293: export default <identifier>
ScanExportDefaultIdentifier ==
    /\ Scanning
    /\ node.type = "ExportDefaultDeclaration"
    /\ node.declaration.type = "Identifier"
    /\ IF IsIslandBinding(node.declaration.name)
       THEN /\ ast' = ReplaceAt(ast, pos, ExportDefault(
                         wrapWithCallExpression(functionWrapName,
                             node.declaration, WrapArgs(Id("default")))))
            /\ willAddImport' = TRUE
            /\ manifest' = Append(manifest, Id("default"))
       ELSE UNCHANGED <<ast, willAddImport, manifest>>
    /\ pos' = pos + 1
    /\ UNCHANGED <<ast0, functions, appendQueue, ipc, calls, manifest1, ast1,
                   importFrom, bvars, wvars, rvars, cvars, fvars>>

\* lines 295-321: export default <inline function | class | arrow>
ScanExportDefaultInline ==
    /\ Scanning
    /\ node.type = "ExportDefaultDeclaration"
    /\ node.declaration.type \in {"ClassDeclaration", "FunctionDeclaration",
                                  "ArrowFunctionExpression"}
    /\ IF isNodeIsland(node.declaration)
       THEN /\ ast' = ReplaceAt(ast, pos, ExportDefault(
                         wrapWithCallExpression(functionWrapName,
                             node.declaration, WrapArgs(Id("default")))))
            /\ willAddImport' = TRUE
            /\ manifest' = Append(manifest, Id("default"))
       ELSE UNCHANGED <<ast, willAddImport, manifest>>
    /\ pos' = pos + 1
    /\ UNCHANGED <<ast0, functions, appendQueue, ipc, calls, manifest1, ast1,
                   importFrom, bvars, wvars, rvars, cvars, fvars>>

\* lines 331-370: the loop over the specifiers of `export { a, b as c }`;
\* the result is the specifiers kept, the exported names recorded and the
\* closures queued
RECURSIVE scanSpecifiers(_, _)
scanSpecifiers(specifiers, acc) ==
    IF specifiers = <<>> THEN acc
    ELSE LET specifier == Head(specifiers)
             name == specifier.local.name
             exportedName == IF specifier.exported.name # NoName
                             THEN specifier.exported.name ELSE name
             next ==
                IF specifier.local.type = "Identifier" /\ IsIslandBinding(name)
                THEN [acc EXCEPT
                        !.names = Append(@, exportedName),
                        !.queue = Append(@, IslandReference(name, exportedName))]
                ELSE [acc EXCEPT !.kept = Append(@, specifier)]
         IN  scanSpecifiers(Tail(specifiers), next)

ScanExportSpecifiers ==
    /\ Scanning
    /\ node.type = "ExportNamedDeclaration"
    /\ node.declaration = Null
    /\ LET r == scanSpecifiers(node.specifiers,
                    [kept |-> <<>>, names |-> <<>>, queue |-> <<>>])
       IN  /\ ast' = ReplaceAt(ast, pos, ExportNamed(Null, r.kept))
           /\ manifest' = manifest \o r.names
           /\ appendQueue' = appendQueue \o r.queue
           /\ willAddImport' = (willAddImport \/ r.names # <<>>)
    /\ pos' = pos + 1
    /\ UNCHANGED <<ast0, functions, ipc, calls, manifest1, ast1, importFrom,
                   bvars, wvars, rvars, cvars, fvars>>

\* lines 374-412: export function f(){} / export class C {}
ScanExportFunctionOrClass ==
    /\ Scanning
    /\ node.type = "ExportNamedDeclaration"
    /\ node.declaration # Null
    /\ node.declaration.type \in {"FunctionDeclaration", "ClassDeclaration"}
    /\ LET name == node.declaration.id.name
       IN  IF isNodeIsland(node.declaration)
           THEN /\ willAddImport' = TRUE
                /\ manifest' = Append(manifest, name)
                /\ ast' = ReplaceAt(ast, pos, node.declaration)
                              \o IslandReference(name, name)
           ELSE UNCHANGED <<ast, willAddImport, manifest>>
    /\ pos' = pos + 1
    /\ UNCHANGED <<ast0, functions, appendQueue, ipc, calls, manifest1, ast1,
                   importFrom, bvars, wvars, rvars, cvars, fvars>>

\* lines 419-463: the loop over the declarators of `export const a = ..., b`
RECURSIVE scanDeclarators(_, _)
scanDeclarators(declarations, acc) ==
    IF declarations = <<>> THEN acc
    ELSE LET declaration == Head(declarations)
             name == declaration.id.name
             next ==
                IF /\ declaration.init # Null
                   /\ isFunctionOrClass(declaration.init)
                   /\ isNodeIsland(declaration.init)
                THEN [acc EXCEPT
                        !.names = Append(@, name),
                        !.queue = Append(@,
                            <<createVariableFromVariableDeclarator(declaration)>>
                                \o IslandReference(name, name))]
                ELSE [acc EXCEPT !.kept = Append(@, declaration)]
         IN  scanDeclarators(Tail(declarations), next)

\* lines 414-470: export const f = <function | arrow | class>
ScanExportVariable ==
    /\ Scanning
    /\ node.type = "ExportNamedDeclaration"
    /\ node.declaration # Null
    /\ node.declaration.type = "VariableDeclaration"
    /\ LET r == scanDeclarators(node.declaration.declarations,
                    [kept |-> <<>>, names |-> <<>>, queue |-> <<>>])
       IN  /\ ast' = IF r.kept = <<>>
                     THEN RemoveAt(ast, pos)
                     ELSE ReplaceAt(ast, pos, ExportNamed(
                              [node.declaration EXCEPT !.declarations = r.kept],
                              <<>>))
           /\ manifest' = manifest \o r.names
           /\ appendQueue' = appendQueue \o r.queue
           /\ willAddImport' = (willAddImport \/ r.names # <<>>)
    /\ pos' = pos + 1
    /\ UNCHANGED <<ast0, functions, ipc, calls, manifest1, ast1, importFrom,
                   bvars, wvars, rvars, cvars, fvars>>

\* every other statement falls through the loop body
ScanOther ==
    /\ Scanning
    /\ ~ /\ node.type = "ExportDefaultDeclaration"
         /\ node.declaration.type \in {"Identifier", "ClassDeclaration",
                "FunctionDeclaration", "ArrowFunctionExpression"}
    /\ ~ /\ node.type = "ExportNamedDeclaration"
         /\ \/ node.declaration = Null
            \/ node.declaration.type \in {"FunctionDeclaration",
                   "ClassDeclaration", "VariableDeclaration"}
    /\ pos' = pos + 1
    /\ UNCHANGED <<ast, ast0, functions, appendQueue, willAddImport, manifest,
                   ipc, calls, manifest1, ast1, importFrom, bvars, wvars, rvars, cvars, fvars>>

\* lines 474-483: the loop has ended; run the queue, add the import, return
Return ==
    /\ ipc = "scan"
    /\ pos > Len(ast)
    /\ LET appended == ast \o Flatten(appendQueue)
       IN  ast' = IF importFrom # "" /\ willAddImport
                  THEN addImportToAST(appended, functionWrapName, importFrom,
                                      importNamed)
                  ELSE appended
    /\ appendQueue' = <<>>
    /\ ipc' = "done"
    /\ manifest1' = IF calls = 1 THEN manifest ELSE manifest1
    /\ ast1' = IF calls = 1 THEN ast' ELSE ast1
    /\ UNCHANGED <<ast0, functions, pos, willAddImport, manifest, calls,
                   importFrom, bvars, wvars, rvars, cvars, fvars>>

----------------------------------------------------------------------------
(* The modules the rewriter is run on: every legal sequence of at most     *)
(* MaxStmts distinct statements of the catalogue below                     *)

JSXElement == Expr("JSXElement", "", NoName, {})

HookCall == Expr("CallExpression", "", <<"u","s","e","S">>, {})

\* a body with a hook call and a markup return, and one without the call
IslandBody == <<ExpressionStatement(HookCall), ReturnStatement(JSXElement)>>

StaticBody == <<ReturnStatement(JSXElement)>>

Function(type, name, stmts) ==
    [type |-> type, id |-> Identifier(name), body |-> BlockStatement(stmts)]

Class(type, name, methods) ==
    [type |-> type, id |-> Identifier(name),
     body |-> [type |-> "ClassBody", body |-> methods]]

Catalogue ==
    << \* function A(){ useS(); return <div/> }
       Function("FunctionDeclaration", Id("A"), IslandBody),
       \* export default A
       ExportDefault(Identifier(Id("A"))),
       \* export { A as B }
       ExportNamed(Null, <<ExportSpecifier(Id("A"), Id("B"))>>),
       \* export function C(){ useS(); return <div/> }
       ExportNamed(Function("FunctionDeclaration", Id("C"), IslandBody), <<>>),
       \* export const D = () => { useS(); return <div/> }
       ExportNamed(createVariableFromVariableDeclarator(
           VariableDeclarator(Id("D"),
               Function("ArrowFunctionExpression", NoName, IslandBody))), <<>>),
       \* export const E = function(){ "use island"; return <div/> }, F = 1
       ExportNamed([type |-> "VariableDeclaration", kind |-> "const",
           declarations |-> <<
               VariableDeclarator(Id("E"),
                   Function("FunctionExpression", NoName,
                       <<ExpressionStatement(Literal("use island")),
                         ReturnStatement(JSXElement)>>)),
               VariableDeclarator(Id("F"), Literal("1")) >>], <<>>),
       \* export function G(){ return <div/> }
       ExportNamed(Function("FunctionDeclaration", Id("G"), StaticBody), <<>>),
       \* export default function(){ useS(); return <div/> }
       ExportDefault(Function("FunctionDeclaration", NoName, IslandBody)),
       \* export class K { componentDidMount(){} render(){ return <div/> } }
       ExportNamed(Class("ClassDeclaration", Id("K"),
           <<MethodDefinition("componentDidMount", <<>>),
             MethodDefinition("render", StaticBody)>>), <<>>),
       \* console.log(1)
       ExpressionStatement(Expr("CallExpression", "", NoName, {})),
       \* import { ssr as render } from "ssr-tools/islands/preact/ssr"
       [type |-> "ImportDeclaration",
        source |-> Literal("ssr-tools/islands/preact/ssr"),
        specifiers |-> <<[type |-> "ImportSpecifier",
                          local |-> Identifier(Id("render")),
                          imported |-> Identifier(functionWrapName)]>>],
       \* export { A }
       ExportNamed(Null, <<ExportSpecifier(Id("A"), Id("A"))>>),
       \* function H(){ return <div/> }
       Function("FunctionDeclaration", Id("H"), StaticBody),
       \* export { H }
       ExportNamed(Null, <<ExportSpecifier(Id("H"), Id("H"))>>)
    >>

IsDefaultExport(st) == st.type = "ExportDefaultDeclaration"

\* the names a statement declares in the module scope
DeclaredNames(st) ==
    IF st.type \in {"FunctionDeclaration", "ClassDeclaration"}
    THEN {st.id.name}
    ELSE IF st.type = "ExportNamedDeclaration" /\ st.declaration # Null
    THEN IF st.declaration.type = "VariableDeclaration"
         THEN {st.declaration.declarations[k].id.name :
                    k \in 1..Len(st.declaration.declarations)}
         ELSE {st.declaration.id.name}
    ELSE IF st.type = "VariableDeclaration"
    THEN {st.declarations[k].id.name : k \in 1..Len(st.declarations)}
    ELSE {}

\* the local names a statement's export specifiers refer to
SpecifierLocals(st) ==
    IF st.type = "ExportNamedDeclaration" /\ st.declaration = Null
    THEN {st.specifiers[k].local.name : k \in 1..Len(st.specifiers)}
    ELSE {}

\* source a parser accepts: statements are distinct, at most one default
\* export, and every `export { x }` names a declared binding
LegalModule(ix) ==
    /\ \A j, k \in 1..Len(ix) : j # k => ix[j] # ix[k]
    /\ Cardinality({k \in 1..Len(ix) : IsDefaultExport(Catalogue[ix[k]])}) <= 1
    /\ \A k \in 1..Len(ix) :
          SpecifierLocals(Catalogue[ix[k]]) \subseteq
              UNION {DeclaredNames(Catalogue[ix[j]]) : j \in 1..Len(ix)}

Modules ==
    { [k \in 1..Len(ix) |-> Catalogue[ix[k]]] :
        ix \in { jx \in UNION {[1..n -> 1..Len(Catalogue)] : n \in 1..MaxStmts} :
                    LegalModule(jx) } }

ImportSources == {"", "ssr-tools/islands/preact/ssr"}

\* no module is being rewritten
IslandsIdle ==
    /\ ast = <<>>
    /\ ast0 = <<>>
    /\ importFrom = ""
    /\ functions = <<>>
    /\ pos = 1
    /\ appendQueue = <<>>
    /\ willAddImport = FALSE
    /\ manifest = <<>>
    /\ ipc = "idle"
    /\ calls = MaxCalls
    /\ manifest1 = <<>>
    /\ ast1 = <<>>

\* no build is running
BuildIdle ==
    /\ userPlugins = <<>>
    /\ root = [abs |-> TRUE, segs |-> <<>>]
    /\ outDir = [abs |-> FALSE, segs |-> <<>>]
    /\ initiated = FALSE
    /\ bundles = {}
    /\ hook = "idle"
    /\ task = <<>>
    /\ nestedPlugins = <<>>
    /\ nestedStarted = <<>>
    /\ output = <<>>
    /\ emitted = <<>>
    /\ fs = {}

\* no walk is running
WalkIdle ==
    /\ importedIds = <<>>
    /\ dynamicallyImportedIds = <<>>
    /\ noInfo = {}
    /\ clientImports = {}
    /\ walker = "dev"
    /\ wpc = "done"
    /\ stack = <<>>
    /\ importIds = <<>>
    /\ visited = {}
    /\ expanded = <<>>
    /\ buildImports = <<>>

\* nothing is registered and no client code was generated
RegistryIdle ==
    /\ clientIslandImports = <<>>
    /\ imports = <<>>
    /\ exported = <<>>
    /\ transforms = 0
    /\ call = [op |-> "none"]
    /\ entriesToImports = <<>>
    /\ codeOutput = <<>>
    /\ clientCode = <<>>

\* isNodeIsland is not being called
ClassifyIdle ==
    /\ islandNode = <<>>
    /\ island = <<>>

\* buildRoutes is not being called
RouterIdle ==
    /\ files = <<>>
    /\ routes = <<>>
    /\ errorRoutes = <<>>
    /\ request = <<>>
    /\ matchedRoute = <<>>
    /\ fpc = "done"

InitIslands ==
    /\ BuildIdle
    /\ WalkIdle
    /\ RegistryIdle
    /\ ClassifyIdle
    /\ RouterIdle
    /\ ast \in Modules
    /\ ast0 = ast
    /\ importFrom \in ImportSources
    /\ functions = <<>>
    /\ pos = 1
    /\ appendQueue = <<>>
    /\ willAddImport = FALSE
    /\ manifest = <<>>
    /\ ipc = "idle"
    /\ calls = 0
    /\ manifest1 = <<>>
    /\ ast1 = <<>>

NextIslands ==
    \/ Call
    \/ ScanExportDefaultIdentifier
    \/ ScanExportDefaultInline
    \/ ScanExportSpecifiers
    \/ ScanExportFunctionOrClass
    \/ ScanExportVariable
    \/ ScanOther
    \/ Return

SpecIslands == InitIslands /\ [][NextIslands]_vars

----------------------------------------------------------------------------
(* Claims about processIslands *)

\* the exported names of one statement whose underlying function or class
\* the classifier accepts, identifiers resolved through the bindings fns
IslandExportsOf(st, fns) ==
    LET accepted(name) == name \in DOMAIN fns /\ isNodeIsland(fns[name])
    IN  IF st.type = "ExportDefaultDeclaration" THEN
            IF st.declaration.type = "Identifier"
            THEN IF accepted(st.declaration.name) THEN <<Id("default")>> ELSE <<>>
            ELSE IF st.declaration.type \in {"ClassDeclaration",
                        "FunctionDeclaration", "ArrowFunctionExpression"}
                    /\ isNodeIsland(st.declaration)
                 THEN <<Id("default")>> ELSE <<>>
        ELSE IF st.type # "ExportNamedDeclaration" THEN <<>>
        ELSE IF st.declaration = Null THEN
            LET sel == SelectSeq(st.specifiers,
                           LAMBDA sp : accepted(sp.local.name))
            IN  [k \in 1..Len(sel) |-> sel[k].exported.name]
        ELSE IF st.declaration.type = "VariableDeclaration" THEN
            LET sel == SelectSeq(st.declaration.declarations, LAMBDA d :
                           /\ d.init # Null
                           /\ isFunctionOrClass(d.init)
                           /\ isNodeIsland(d.init))
            IN  [k \in 1..Len(sel) |-> sel[k].id.name]
        ELSE IF isNodeIsland(st.declaration)
             THEN <<st.declaration.id.name>> ELSE <<>>

\* the island exports of a module, in source order
IslandExports(body) ==
    Flatten([k \in 1..Len(body) |->
                IslandExportsOf(body[k], gatherFunctions(body))])

IsWrapperCall(e) ==
    e.type = "CallExpression" /\ e.callee = Identifier(functionWrapName)

\* the exported names of a tree that are bound to a wrapper call
WrappedExports(body) ==
    LET wrapperVars ==
            UNION {{body[k].declarations[j].id.name :
                        j \in {i \in 1..Len(body[k].declarations) :
                                 /\ body[k].declarations[i].init # Null
                                 /\ IsWrapperCall(body[k].declarations[i].init)}} :
                   k \in {i \in 1..Len(body) :
                            body[i].type = "VariableDeclaration"}}
        default ==
            IF \E k \in 1..Len(body) :
                  /\ body[k].type = "ExportDefaultDeclaration"
                  /\ IsWrapperCall(body[k].declaration)
            THEN {Id("default")} ELSE {}
        named ==
            UNION {{body[k].specifiers[j].exported.name :
                        j \in {i \in 1..Len(body[k].specifiers) :
                            body[k].specifiers[i].local.name \in wrapperVars}} :
                   k \in {i \in 1..Len(body) :
                            /\ body[i].type = "ExportNamedDeclaration"
                            /\ body[i].declaration = Null}}
    IN  default \cup named

\* C1: after one call the manifest lists, in source order, every export
\* whose function or class the classifier accepts, and each of them goes
\* through the wrapper call
C1_ManifestListsEveryIslandExport ==
    (ipc = "done" /\ calls = 1) =>
        /\ manifest = IslandExports(ast0)
        /\ Range(IslandExports(ast0)) \subseteq WrappedExports(ast)

\* C2: a second call on the tree left by a first call that returned a
\* non-empty manifest returns the empty value and leaves the tree as it is
C2_SecondCallReturnsEmpty ==
    (ipc = "done" /\ calls = 2 /\ manifest1 # <<>>) =>
        (manifest = <<>> /\ ast = ast1)

\* C3: a step of the main scan neither appends nor removes a statement; it
\* may only replace the visited statement in place
C3_ScanKeepsStatementList ==
    [][(ipc = "scan" /\ ipc' = "scan") =>
          /\ Len(ast') = Len(ast)
          /\ \A k \in 1..Len(ast) : k # pos => ast'[k] = ast[k]]_vars

\* the tree the running call was started on
TreeBefore == IF calls = 1 THEN ast0 ELSE ast1

\* `import { <wrapper> } from "<importFrom>"`, the statement addImportToAST adds
IsWrapperImport(st) ==
    /\ st.type = "ImportDeclaration"
    /\ st.source.value = importFrom
    /\ \E k \in 1..Len(st.specifiers) :
          /\ st.specifiers[k].type = "ImportSpecifier"
          /\ st.specifiers[k].imported.name = functionWrapName
          /\ st.specifiers[k].local.name = functionWrapName

WrapperImports(body) ==
    Cardinality({k \in 1..Len(body) : IsWrapperImport(body[k])})

ImportStatements(body) ==
    Cardinality({k \in 1..Len(body) : body[k].type = "ImportDeclaration"})

\* C22: a call that rewrote an export and was given importFrom leaves the
\* wrapper import as first statement unless the tree had one, and never a
\* second one; a call that rewrote nothing adds no import
C22_WrapperImportOnceWhenNeeded ==
    (ipc = "done" /\ calls \in {1, 2}) =>
        IF manifest # <<>> /\ importFrom # ""
        THEN /\ WrapperImports(ast) = 1
             /\ IsWrapperImport(ast[1]) \/ WrapperImports(TreeBefore) = 1
        ELSE ImportStatements(ast) = ImportStatements(TreeBefore)

\* the names one statement exports
ExportedNamesOf(st) ==
    IF st.type = "ExportDefaultDeclaration" THEN {Id("default")}
    ELSE IF st.type # "ExportNamedDeclaration" THEN {}
    ELSE IF st.declaration = Null
    THEN {st.specifiers[k].exported.name : k \in 1..Len(st.specifiers)}
    ELSE IF st.declaration.type = "VariableDeclaration"
    THEN {st.declaration.declarations[k].id.name :
             k \in 1..Len(st.declaration.declarations)}
    ELSE {st.declaration.id.name}

ExportedNames(body) == UNION {ExportedNamesOf(body[k]) : k \in 1..Len(body)}

\* C23: after a call the module exports the names it exported before, and
\* every name in the manifest is exported through a wrapper call
C23_ExportInterfacePreserved ==
    ipc = "done" =>
        /\ ExportedNames(ast) = ExportedNames(ast0)
        /\ Range(manifest) \subseteq WrappedExports(ast)

\* a call has rewritten an island exported under an alias and another export
C23_Witness ==
    /\ ipc = "done"
    /\ calls = 1
    /\ Id("B") \in Range(manifest)
    /\ Len(manifest) >= 2

\* C24: a call on a tree none of whose exports the classifier accepts
\* returns the empty value and leaves the tree as it was
C24_NoIslandNoChange ==
    (ipc = "done" /\ calls \in {1, 2} /\ IslandExports(TreeBefore) = <<>>) =>
        (manifest = <<>> /\ ast = TreeBefore)

\* a call has ended on a module that exports a static component through a
\* specifier and through a declaration
C24_Witness ==
    /\ ipc = "done"
    /\ calls = 1
    /\ IslandExports(ast0) = <<>>
    /\ {Id("H"), Id("G")} \subseteq ExportedNames(ast0)

\* the names of the top-level variables bound to a wrapper call, in order
WrapperVariables(body) ==
    Flatten([k \in 1..Len(body) |->
        IF body[k].type # "VariableDeclaration" THEN <<>>
        ELSE LET ds == SelectSeq(body[k].declarations, LAMBDA d :
                          d.init # Null /\ IsWrapperCall(d.init))
             IN  [j \in 1..Len(ds) |-> ds[j].id.name]])

\* C28: the wrapper variables a call appends to a module have pairwise
\* distinct names
C28_WrapperVariablesDistinct ==
    (ipc = "done" /\ calls = 1) => NoDuplicates(WrapperVariables(ast))

----------------------------------------------------------------------------
(* Paths (node:path join and resolve), as clientCompiler uses them.  A     *)
(* path is a flag for a leading "/" and a list of segments; a segment is a *)
(* list of string fragments, so that `.${name}` is built by concatenation. *)

Up == <<"..">>

Dot == <<".">>

Path(abs, segs) == [abs |-> abs, segs |-> segs]

\* path.normalize: drops ".", resolves ".." against the segment before it
RECURSIVE normalizeSegs(_, _, _)
normalizeSegs(abs, segs, acc) ==
    IF segs = <<>> THEN acc
    ELSE LET sg == Head(segs)
             next ==
                IF sg = Dot THEN acc
                ELSE IF sg = Up THEN
                    IF acc # <<>> /\ acc[Len(acc)] # Up
                    THEN SubSeq(acc, 1, Len(acc) - 1)
                    ELSE IF abs THEN acc ELSE Append(acc, Up)
                ELSE Append(acc, sg)
         IN  normalizeSegs(abs, Tail(segs), next)

normalize(p) == Path(p.abs, normalizeSegs(p.abs, p.segs, <<>>))

\* path.join(a, b) for a relative b
join(a, b) == normalize(Path(a.abs, a.segs \o b.segs))

\* path.resolve(from, to) for an absolute from
resolvePath(from, to) ==
    IF to.abs THEN normalize(to)
    ELSE normalize(Path(TRUE, from.segs \o to.segs))

\* clientCompiler.ts:104  join(outDir, `../.${name}`)
clientOutDir(name) == join(outDir, Path(FALSE, <<Up, <<".", name>>>>))

\* clientCompiler.ts:105
absClientOutDir(name) == resolvePath(root, clientOutDir(name))

\* the directory the primary build writes to
absOutDir == resolvePath(root, outDir)

\* directory a is directory b or contains it
Contains(a, b) ==
    /\ Len(a.segs) <= Len(b.segs)
    /\ SubSeq(b.segs, 1, Len(a.segs)) = a.segs

\* fs.rmSync(dir, { recursive: true, force: true })
rmSync(dirs, dir) == {d \in dirs : ~Contains(dir, d)}

----------------------------------------------------------------------------
(* Plugin lists.  An entry of ssrUserConfig.plugins is a plugin, a falsy   *)
(* value or an array of plugins; a plugin name is a list of fragments.     *)

Plugin(name) == [kind |-> "plugin", name |-> name]

Falsy == [kind |-> "falsy"]

PluginArray(items) == [kind |-> "array", items |-> items]

BundlePluginName == <<"ssr-tools:", "bundle">>

VirtualPlugin == Plugin(<<"ssr-tools:", "client-bundle">>)

\* Array.prototype.flat(): one level
RECURSIVE flat(_)
flat(entries) ==
    IF entries = <<>> THEN <<>>
    ELSE (IF Head(entries).kind = "array" THEN Head(entries).items
          ELSE <<Head(entries)>>) \o flat(Tail(entries))

\* name.startsWith('ssr-tools:')
startsWithSsrTools(name) == name # <<>> /\ name[1] = "ssr-tools:"

\* the filter without its test of the name prefix
keepPlugin_AnyName(plugin) ==
    /\ plugin.kind = "plugin"
    /\ plugin.name # <<>>

\* clientCompiler.ts:98-100
keepPlugin(plugin) ==
    /\ plugin.kind = "plugin"
    /\ plugin.name # <<>>
    /\ ~startsWithSsrTools(plugin.name)

clientPlugins == SelectSeq(flat(userPlugins), keepPlugin)

\* clientCompiler.ts:126-140
nestedBuildPlugins == clientPlugins \o <<VirtualPlugin>>

\* the plugins of a list whose buildEnd hook starts nested builds
BundlePluginsIn(plugins) ==
    Len(SelectSeq(plugins, LAMBDA q : q.name = BundlePluginName))

----------------------------------------------------------------------------
(* Output files of a nested build (Rollup.OutputChunk / OutputAsset) *)

OutputChunk(name, code, map) ==
    [type |-> "chunk", name |-> name, code |-> code, map |-> map,
     sourcemapFileName |-> IF map = "" THEN NoName ELSE name \o <<".js.map">>,
     source |-> <<>>]

OutputAsset(name, source) ==
    [type |-> "asset", name |-> name, code |-> <<>>, map |-> "",
     sourcemapFileName |-> NoName, source |-> source]

\* files a nested build of bundle b may produce beside its entry chunk
ExtraFiles(b) ==
    { OutputChunk(<<b, "-shared">>, <<"code of shared chunk of ", b>>, ""),
      OutputAsset(<<b, ".css">>, <<"styles of ", b>>) }

EntryChunks(b) ==
    { OutputChunk(<<b>>, <<"code of ", b>>, m) :
        m \in {"", "{\"version\":3}"} }

SeqsUpTo(S, n) == UNION {[1..k -> S] : k \in 0..n}

\* manifest.output of a nested build of bundle b
Outputs(b) ==
    { <<e>> \o x : e \in EntryChunks(b),
                   x \in { y \in SeqsUpTo(ExtraFiles(b), MaxExtraFiles) :
                             \A j, k \in 1..Len(y) : j # k => y[j] # y[k] } }

\* the emitFile calls of buildEnd for one output file, bundlePlugin.ts:686-702
emitFilesOf(file) ==
    IF file.name = NoName \/ file.type = "asset" THEN <<>>
    ELSE <<[type |-> "asset", name |-> file.name \o <<".js">>,
            fileName |-> NoName, source |-> file.code]>>
         \o (IF file.map # ""
             THEN <<[type |-> "asset", name |-> NoName,
                     fileName |-> file.sourcemapFileName,
                     source |-> <<"JSON.stringify", file.map>>]>>
             ELSE <<>>)

----------------------------------------------------------------------------
(* bundlePlugin buildEnd (bundlePlugin.ts:665-704) and clientCompiler      *)
(* (clientCompiler.ts:94-147).  Each bundle's async callback runs up to    *)
(* its await of the nested build inside buildEnd; the nested builds then   *)
(* settle in any order.                                                    *)

\* lines 665-683: the hook starts; every bundle's callback calls
\* clientCompiler, which hands its plugin list to a nested build
BuildEnd ==
    /\ hook = "idle"
    /\ IF ~initiated
       THEN /\ hook' = "resolved"
            /\ UNCHANGED <<task, nestedPlugins, nestedStarted>>
       ELSE /\ hook' = "running"
            /\ task' = [b \in bundles |-> "building"]
            /\ nestedPlugins' = [b \in bundles |-> nestedBuildPlugins]
            /\ nestedStarted' = [b \in bundles |-> 1]
    /\ UNCHANGED <<userPlugins, root, outDir, initiated, bundles, output,
                   emitted, fs, ivars, wvars, rvars, cvars, fvars>>

\* the nested build of b runs the buildEnd hooks of the plugins it was
\* given: a bundle plugin among them starts the nested builds again
NestedBuildEnd(b) ==
    /\ task[b] = "building"
    /\ task' = [task EXCEPT ![b] = "bundled"]
    /\ nestedStarted' = [c \in bundles |->
            nestedStarted[c] + BundlePluginsIn(nestedPlugins[b])]
    /\ UNCHANGED <<userPlugins, root, outDir, initiated, bundles, hook,
                   nestedPlugins, output, emitted, fs, ivars, wvars, rvars, cvars, fvars>>

\* clientCompiler.ts:110-146: the nested build resolves, having written its
\* files to the scratch directory; clientCompiler removes the directory and
\* returns the manifest
BuildResolve(b) ==
    /\ task[b] = "bundled"
    /\ \E out \in Outputs(b) : output' = [output EXCEPT ![b] = out]
    /\ fs' = rmSync(fs \cup {absClientOutDir(b)}, absClientOutDir(b))
    /\ task' = [task EXCEPT ![b] = "returned"]
    /\ UNCHANGED <<userPlugins, root, outDir, initiated, bundles, hook,
                   nestedPlugins, nestedStarted, emitted, ivars, wvars, rvars, cvars, fvars>>

\* clientCompiler.ts:109-142: the await of the nested build throws, before
\* or after the build wrote to the scratch directory; the callback rejects
\* and with it Promise.all
BuildReject(b) ==
    /\ task[b] \in {"building", "bundled"}
    /\ \E written \in BOOLEAN :
          fs' = IF written THEN fs \cup {absClientOutDir(b)} ELSE fs
    /\ task' = [task EXCEPT ![b] = "failed"]
    /\ hook' = IF hook = "running" THEN "rejected" ELSE hook
    /\ UNCHANGED <<userPlugins, root, outDir, initiated, bundles,
                   nestedPlugins, nestedStarted, output, emitted, ivars, wvars, rvars, cvars, fvars>>

\* bundlePlugin.ts:684-702: the callback of b resumes with the manifest
EmitOutput(b) ==
    /\ task[b] = "returned"
    /\ emitted' = emitted \o
            Flatten([k \in 1..Len(output[b]) |-> emitFilesOf(output[b][k])])
    /\ task' = [task EXCEPT ![b] = "done"]
    /\ UNCHANGED <<userPlugins, root, outDir, initiated, bundles, hook,
                   nestedPlugins, nestedStarted, output, fs, ivars, wvars, rvars, cvars, fvars>>

\* bundlePlugin.ts:673,703: Promise.all resolves once every callback has
HookResolve ==
    /\ hook = "running"
    /\ \A b \in bundles : task[b] = "done"
    /\ hook' = "resolved"
    /\ UNCHANGED <<userPlugins, root, outDir, initiated, bundles, task,
                   nestedPlugins, nestedStarted, output, emitted, fs, ivars, wvars, rvars, cvars, fvars>>

NextBuild ==
    \/ BuildEnd
    \/ \E b \in bundles : NestedBuildEnd(b)
    \/ \E b \in bundles : BuildResolve(b)
    \/ \E b \in bundles : BuildReject(b)
    \/ \E b \in bundles : EmitOutput(b)
    \/ HookResolve

----------------------------------------------------------------------------
(* Configurations the build is run with *)

BundleNames == <<"client", "islands", "admin", "search">>

\* what client() returns (src/vite/client.ts:14-34)
ClientPluginArray ==
    PluginArray(<<Plugin(BundlePluginName),
                  Plugin(<<"ssr-tools:", "bundle-dev">>),
                  Plugin(<<"ssr-tools:", "client">>)>>)

PluginPool ==
    { Plugin(<<"vite:", "react">>),
      Plugin(<<"ignored-", "ssr-tools:", "client">>),
      Falsy,
      ClientPluginArray,
      Plugin(BundlePluginName),
      PluginArray(<<Plugin(<<"vite:", "preact">>),
                    Plugin(<<"ssr-tools:", "file-router">>)>>) }

\* buildEnd only runs in a build whose plugins include the bundle plugin
PluginLists ==
    { l \in SeqsUpTo(PluginPool, MaxPlugins) :
        BundlePluginsIn(SelectSeq(flat(l), LAMBDA q : q.kind = "plugin")) > 0 }

DefaultPlugins == <<ClientPluginArray, Plugin(<<"vite:", "react">>)>>

DefaultRoot == Path(TRUE, <<<<"proj">>>>)

DefaultOutDir == Path(FALSE, <<<<"dist">>>>)

Segments == { <<"dist">>, <<".", "client">>, Up, Dot }

OutDirs == { Path(a, sg) : a \in BOOLEAN, sg \in SeqsUpTo(Segments, MaxPathLen) }

Roots == { Path(TRUE, sg) :
             sg \in SeqsUpTo({<<"proj">>, <<".", "client">>}, 1) }

FirstBundles(n) == {BundleNames[k] : k \in 1..n}

BuildReady ==
    /\ hook = "idle"
    /\ task = [b \in bundles |-> "pending"]
    /\ nestedPlugins = [b \in bundles |-> <<>>]
    /\ nestedStarted = [b \in bundles |-> 0]
    /\ output = [b \in bundles |-> <<>>]
    /\ emitted = <<>>
    /\ fs = {absOutDir}

\* a usual configuration, any number of bundles
InitBuild ==
    /\ IslandsIdle
    /\ WalkIdle
    /\ RegistryIdle
    /\ ClassifyIdle
    /\ RouterIdle
    /\ userPlugins = DefaultPlugins
    /\ root = DefaultRoot
    /\ outDir = DefaultOutDir
    /\ initiated \in BOOLEAN
    /\ bundles \in {FirstBundles(n) : n \in 0..MaxBundles}
    /\ BuildReady

\* any plugin list, one bundle
InitPlugins ==
    /\ IslandsIdle
    /\ WalkIdle
    /\ RegistryIdle
    /\ ClassifyIdle
    /\ RouterIdle
    /\ userPlugins \in PluginLists
    /\ root = DefaultRoot
    /\ outDir = DefaultOutDir
    /\ initiated = TRUE
    /\ bundles = FirstBundles(1)
    /\ BuildReady

\* any root and output directory, one bundle
InitPaths ==
    /\ IslandsIdle
    /\ WalkIdle
    /\ RegistryIdle
    /\ ClassifyIdle
    /\ RouterIdle
    /\ userPlugins = DefaultPlugins
    /\ root \in Roots
    /\ outDir \in OutDirs
    /\ initiated = TRUE
    /\ bundles \in {{BundleNames[n]} : n \in 1..MaxBundles}
    /\ BuildReady

SpecBuild == InitBuild /\ [][NextBuild]_vars

SpecPlugins == InitPlugins /\ [][NextBuild]_vars

SpecPaths == InitPaths /\ [][NextBuild]_vars

----------------------------------------------------------------------------
(* Claims about the build-finalize hook and the nested compiler *)

\* C4: in a run in which the nested build of some bundle fails, the hook
\* rejects and no file of any bundle is emitted into the primary build
C4_NoEmitWhenANestedBuildFails ==
    (\E b \in bundles : task[b] = "failed") =>
        (hook = "rejected" /\ emitted = <<>>)

\* C5: after every clientCompiler invocation that has terminated, by
\* returning or by throwing, the scratch directory does not exist
C5_ScratchRemovedAfterEveryInvocation ==
    \A b \in bundles :
        task[b] \in {"returned", "done", "failed"} => absClientOutDir(b) \notin fs

\* the named plugins of the host's list, nested arrays opened
HostPlugins == SelectSeq(flat(userPlugins), LAMBDA q : q.kind = "plugin")

ContentOf(file) == IF file.type = "chunk" THEN file.code ELSE file.source

TimesEmitted(source) ==
    Cardinality({k \in 1..Len(emitted) : emitted[k].source = source})

\* C7: once a bundle's callback has finished, every chunk and every asset
\* of its manifest has been emitted exactly once with its content, and its
\* source map too when it has one
C7_EveryOutputFileEmittedOnce ==
    \A b \in bundles :
        task[b] = "done" =>
            \A k \in 1..Len(output[b]) :
                /\ TimesEmitted(ContentOf(output[b][k])) = 1
                /\ output[b][k].map # "" =>
                      TimesEmitted(<<"JSON.stringify", output[b][k].map>>) = 1

\* C8: the directory clientCompiler removes is neither the primary build's
\* output directory nor a directory containing it, and the output directory
\* is still there afterwards
C8_ScratchOutsidePrimaryOutput ==
    \A b \in bundles :
        task[b] \in {"returned", "done"} =>
            /\ ~Contains(absClientOutDir(b), absOutDir)
            /\ absOutDir \in fs

----------------------------------------------------------------------------
(* Dependency walkers, bundlePlugin.ts:520-538 (walkImportsInModuleInfoMap, *)
(* over the ModuleInfo snapshot of a build) and 563-579                     *)
(* (walkImportsInModuleGraph, over the dev server's module graph).  Each    *)
(* recursive call is a frame: the module whose out-edges are enumerated and *)
(* the part of them the for-of loop has not reached yet.                    *)

IdOrder == <<"entry", "a", "b">>

Ids == Range(IdOrder)

entry == IdOrder[1]

\* the engine's call stack holds more frames than any walk of Ids needs
MaxCallStack == Len(IdOrder) + 2

RECURSIVE RemoveDuplicates(_, _)
RemoveDuplicates(s, seen) ==
    IF s = <<>> THEN <<>>
    ELSE IF Head(s) \in seen THEN RemoveDuplicates(Tail(s), seen)
    ELSE <<Head(s)>> \o RemoveDuplicates(Tail(s), seen \cup {Head(s)})

\* ModuleNode.ssrImportedModules: a Set holding the same edges
ssrImportedModules(n) ==
    RemoveDuplicates(dynamicallyImportedIds[n] \o importedIds[n], {})

\* the for-of loop over the static imports only
OutEdges_StaticOnly(w, n) == importedIds[n]

\* the build walker's spread with the two lists swapped
OutEdges_StaticFirst(w, n) ==
    IF w = "build" THEN importedIds[n] \o dynamicallyImportedIds[n]
    ELSE ssrImportedModules(n)

\* the list the for-of loop of each walker runs over (lines 527 and 569)
OutEdges(w, n) ==
    IF w = "build" THEN dynamicallyImportedIds[n] \o importedIds[n]
    ELSE ssrImportedModules(n)

Frame(w, n) == [node |-> n, rest |-> OutEdges(w, n)]

top == stack[Len(stack)]

\* visited[node.id] = true, without the assignment
markVisited_Forgotten(v, id) == v

\* visited[node.id] = true (lines 534 and 575)
markVisited(v, id) == v \cup {id}

\* a walker is called on the entry with fresh importIds and visited
StartWalk(w) ==
    /\ walker' = w
    /\ wpc' = "walking"
    /\ stack' = <<Frame(w, entry)>>
    /\ importIds' = <<>>
    /\ visited' = {}
    /\ expanded' = [n \in Ids |-> IF n = entry THEN 1 ELSE 0]
    /\ UNCHANGED <<importedIds, dynamicallyImportedIds, noInfo, clientImports,
                   buildImports, ivars, bvars, rvars, cvars, fvars>>

\* getBuildEntriesToImports calls walkImportsInModuleInfoMap (line 514)
StartBuildWalk == wpc = "idle" /\ StartWalk("build")

\* getDevEntriesToImports calls walkImportsInModuleGraph (line 557)
StartDevWalk == wpc = "done" /\ walker = "build" /\ StartWalk("dev")

Walking == wpc = "walking" /\ top.rest # <<>>

NextRest == [stack EXCEPT ![Len(stack)].rest = Tail(@)]

\* lines 529 and 570: no module info / no id
WalkSkipNoInfo ==
    /\ Walking
    /\ Head(top.rest) \in noInfo
    /\ stack' = NextRest
    /\ UNCHANGED <<importedIds, dynamicallyImportedIds, noInfo, clientImports,
                   walker, wpc, importIds, visited, expanded, buildImports,
                   ivars, bvars, rvars, cvars, fvars>>

\* lines 530 and 571: already visited
WalkSkipVisited ==
    /\ Walking
    /\ Head(top.rest) \notin noInfo
    /\ Head(top.rest) \in visited
    /\ stack' = NextRest
    /\ UNCHANGED <<importedIds, dynamicallyImportedIds, noInfo, clientImports,
                   walker, wpc, importIds, visited, expanded, buildImports,
                   ivars, bvars, rvars, cvars, fvars>>

\* lines 531-535 and 572-576: record, mark and recurse
WalkInto ==
    /\ Walking
    /\ LET id == Head(top.rest)
       IN  /\ id \notin noInfo
           /\ id \notin visited
           /\ importIds' = IF id \in clientImports
                           THEN Append(importIds, id) ELSE importIds
           /\ visited' = markVisited(visited, id)
           /\ IF Len(stack) >= MaxCallStack
              THEN /\ wpc' = "RangeError"
                   /\ UNCHANGED <<stack, expanded>>
              ELSE /\ wpc' = wpc
                   /\ stack' = Append(NextRest, Frame(walker, id))
                   /\ expanded' = [expanded EXCEPT ![id] = @ + 1]
    /\ UNCHANGED <<importedIds, dynamicallyImportedIds, noInfo, clientImports,
                   walker, buildImports, ivars, bvars, rvars, cvars, fvars>>

\* lines 537 and 578: the loop has ended, return importIds
WalkReturn ==
    /\ wpc = "walking"
    /\ top.rest = <<>>
    /\ stack' = SubSeq(stack, 1, Len(stack) - 1)
    /\ wpc' = IF Len(stack) = 1 THEN "done" ELSE wpc
    /\ buildImports' = IF Len(stack) = 1 /\ walker = "build"
                       THEN importIds ELSE buildImports
    /\ UNCHANGED <<importedIds, dynamicallyImportedIds, noInfo, clientImports,
                   walker, importIds, visited, expanded, ivars, bvars, rvars, cvars, fvars>>

NextWalk ==
    \/ StartBuildWalk
    \/ StartDevWalk
    \/ WalkSkipNoInfo
    \/ WalkSkipVisited
    \/ WalkInto
    \/ WalkReturn

\* import edges: (importer, imported, kind)
AllEdges == Ids \X Ids \X {"static", "dynamic"}

\* every graph over Ids with at most MaxEdges import edges
EdgeSets == {Range(f) : f \in SeqsUpTo(AllEdges, MaxEdges)}

\* the imports of kind k of module n, in the order of IdOrder
ImportsOf(E, n, k) == SelectSeq(IdOrder, LAMBDA t : <<n, t, k>> \in E)

InitWalk ==
    /\ IslandsIdle
    /\ BuildIdle
    /\ RegistryIdle
    /\ ClassifyIdle
    /\ RouterIdle
    /\ noInfo \in {{}, {IdOrder[Len(IdOrder)]}}
    \* a module without ModuleInfo (or a node without id) has no recorded imports
    /\ \E E \in EdgeSets :
          /\ \A e \in E : e[1] \notin noInfo
          /\ importedIds = [n \in Ids |-> ImportsOf(E, n, "static")]
          /\ dynamicallyImportedIds = [n \in Ids |-> ImportsOf(E, n, "dynamic")]
    /\ clientImports \in SUBSET (Ids \ noInfo)
    /\ walker = "build"
    /\ wpc = "idle"
    /\ stack = <<>>
    /\ importIds = <<>>
    /\ visited = {}
    /\ expanded = [n \in Ids |-> 0]
    /\ buildImports = <<>>

SpecWalk == InitWalk /\ [][NextWalk]_vars

\* the walkers run synchronously to completion: every enabled step is taken
SpecWalkFair == SpecWalk /\ WF_vars(NextWalk)

----------------------------------------------------------------------------
(* Claims about the dependency walkers *)

\* C9: the list a walker builds and returns holds each module id at most once
C9_NoIdReturnedTwice ==
    NoDuplicates(importIds) /\ NoDuplicates(buildImports)

\* a finished walk that returned a registered module which two visited
\* modules import (a diamond or a cycle)
C9_Witness ==
    /\ wpc = "done"
    /\ \E id \in Range(importIds) :
          Cardinality({n \in visited \cup {entry} :
                          id \in Range(OutEdges(walker, n))}) >= 2

\* C10: both walkers terminate, whatever the graph
C10_WalkersTerminate == <>(wpc = "done" /\ walker = "dev")

\* a finished walk of a graph with an import cycle through the entry
C10_Witness ==
    /\ wpc = "done"
    /\ entry \in visited
    /\ Cardinality(visited) >= 2

\* the modules n imports, statically or dynamically
Successors(n) == Range(importedIds[n]) \cup Range(dynamicallyImportedIds[n])

RECURSIVE ReachFrom(_, _)
ReachFrom(S, k) ==
    IF k = 0 THEN S
    ELSE ReachFrom(S \cup UNION {Successors(n) : n \in S}, k - 1)

\* the modules reachable from the entry over one or more import edges
Reachable == ReachFrom(Successors(entry), Cardinality(Ids))

\* C11: a finished walk returns exactly the registered modules that are
\* reachable from the entry over one or more import edges
C11_ReturnsRegisteredReachable ==
    wpc = "done" => Range(importIds) = clientImports \cap Reachable

\* a finished walk that found a registered module the entry does not import
\* itself, behind an unregistered one, and left a registered module out
C11_Witness ==
    /\ wpc = "done"
    /\ \E id \in Range(importIds) :
          /\ id \notin Successors(entry)
          /\ \E m \in Successors(entry) \ clientImports : id \in Successors(m)
    /\ clientImports \ Range(importIds) # {}

\* C12: on the same out-edge lists the module-graph walker returns the list
\* the ModuleInfo walker returned, in the same order
C12_WalkersAgree ==
    (wpc = "done" /\ walker = "dev") => importIds = buildImports

\* both walks finished on a graph where some visited module has dynamic and
\* static imports, and they returned several modules
C12_Witness ==
    /\ wpc = "done"
    /\ walker = "dev"
    /\ Len(importIds) >= 2
    /\ \E n \in visited \cup {entry} :
          /\ importedIds[n] # <<>>
          /\ dynamicallyImportedIds[n] # <<>>
          /\ Head(importedIds[n]) # Head(dynamicallyImportedIds[n])

\* C25: during one walk the out-edges of every module, the entry included,
\* are enumerated at most once
C25_EveryModuleExpandedOnce ==
    wpc # "idle" => \A n \in Ids : expanded[n] <= 1

\* C26: the list a finished walk returns for an entry that is itself
\* registered holds the entry
C26_RegisteredEntryInOwnList ==
    (wpc = "done" /\ entry \in clientImports) => entry \in Range(importIds)

----------------------------------------------------------------------------
(* Import registries: the islands plugin's clientIslandImports            *)
(* (src/islands/vite.ts) and ClientBundle.imports (bundlePlugin.ts).  A   *)
(* Map is its list of <<key, value>> entries in insertion order.          *)

has(m, k) == \E j \in 1..Len(m) : m[j][1] = k

get(m, k) == (CHOOSE e \in Range(m) : e[1] = k)[2]

keys(m) == {m[j][1] : j \in 1..Len(m)}

\* a set() that drops every other entry
MapSet_Only(m, k, v) == <<<<k, v>>>>

\* a set() that appends without looking for the key
MapSet_Push(m, k, v) == Append(m, <<k, v>>)

\* Map.prototype.set: replaces the value of an existing key, else appends
MapSet(m, k, v) ==
    IF has(m, k)
    THEN [j \in 1..Len(m) |-> IF m[j][1] = k THEN <<k, v>> ELSE m[j]]
    ELSE Append(m, <<k, v>>)

\* the hashes of utility/crypto.ts, as values determined by their input
md5(str) == <<"md5", str>>

sha(str) == <<"sha", str>>

\* `import { ${name} as ${as} } from "${absPathToFile}"`
NamedImport(name, as, from) == [import |-> <<name>>, as |-> as, from |-> from]

\* `import "${absPathToFile}"`
BareImport(from) == [import |-> <<>>, as |-> <<>>, from |-> from]

\* the fields both constructors compute from the suffix
ClientImportWith(suffix, absPathToFile, names) ==
    LET as(name) == <<name>> \o suffix
    IN  [code |-> [k \in 1..Len(names) |->
                      NamedImport(names[k], as(names[k]), absPathToFile)],
         variables |-> [k \in 1..Len(names) |-> as(names[k])],
         names |-> names,
         exportMap |-> RemoveDuplicates(
                          [k \in 1..Len(names) |-> <<names[k], as(names[k])>>],
                          {})]

\* an alias suffix made with the other hash of utility/crypto.ts
createClientIslandImport_ShaSuffix(absPathToFile, names) ==
    ClientImportWith(<<"_", sha(absPathToFile)>>, absPathToFile, names)

\* createClientIslandImport, src/islands/vite.ts
createClientIslandImport(absPathToFile, names) ==
    ClientImportWith(<<"_", md5(absPathToFile)>>, absPathToFile, names)

\* createClientImport, bundlePlugin.ts:471-496
createClientImport(absPathToFile, names) ==
    LET c == ClientImportWith(<<"_", sha(absPathToFile)>>, absPathToFile, names)
    IN  IF names = <<>>
        THEN [c EXCEPT !.code = Append(@, BareImport(absPathToFile))]
        ELSE c

\* clientImport.exportMap.values()
exportMapValues(clientImport) ==
    [k \in 1..Len(clientImport.exportMap) |-> clientImport.exportMap[k][2]]

\* module ids: <<path without extension, extension>>
ModuleIds == {<<"/src/Counter", "tsx">>, <<"/src/Menu", "JSX">>,
              <<"/src/theme", "css">>}

\* matchJs = /\.(ts|js)x?$/i
matchJs(id) == id[2] \in {"ts", "tsx", "js", "jsx", "TS", "TSX", "JS", "JSX"}

ExportNames == {"default", "Counter"}

\* what processIslands can return: a list of distinct export names; the
\* empty list stands for `false`
Manifests == {m \in SeqsUpTo(ExportNames, MaxExports) : NoDuplicates(m)}

\* islands.transform, src/islands/vite.ts:71-111
Transform(id, ssr, manifest_) ==
    /\ transforms < MaxTransforms
    /\ transforms' = transforms + 1
    /\ call' = [op |-> "transform", id |-> id, ssr |-> ssr,
                exported |-> manifest_, repeated |-> FALSE,
                \* the componentId literals of the wrapper calls that
                \* processIslands writes when given `importId: md5(id)`
                componentIds |->
                    IF ~ssr \/ ~matchJs(id) THEN <<>>
                    ELSE [k \in 1..Len(manifest_) |->
                             componentId(md5(id), <<manifest_[k]>>)]]
    /\ IF ~ssr \/ ~matchJs(id)
       THEN UNCHANGED <<clientIslandImports, exported>>
       ELSE /\ exported' = [exported EXCEPT ![id] = manifest_]
            /\ clientIslandImports' =
                  IF manifest_ = <<>> THEN clientIslandImports
                  ELSE MapSet(clientIslandImports, id,
                              createClientIslandImport(id, manifest_))
    /\ UNCHANGED <<imports, entriesToImports, codeOutput, clientCode,
                   ivars, bvars, wvars, cvars, fvars>>

\* ClientBundle.addImport, bundlePlugin.ts:451-454
AddImport(absPathToFile, names) ==
    /\ transforms < MaxTransforms
    /\ transforms' = transforms + 1
    /\ call' = [op |-> "addImport", id |-> absPathToFile, ssr |-> TRUE,
                exported |-> names,
                \* the call before this one had the same arguments
                repeated |-> /\ call.op = "addImport"
                             /\ call.id = absPathToFile
                             /\ call.exported = names]
    /\ imports' = MapSet(imports, absPathToFile,
                         createClientImport(absPathToFile, names))
    /\ UNCHANGED <<clientIslandImports, exported, entriesToImports, codeOutput,
                   clientCode, ivars, bvars, wvars, cvars, fvars>>

NextRegistry ==
    \/ \E id \in ModuleIds, ssr \in BOOLEAN, m \in Manifests :
          Transform(id, ssr, m)
    \/ \E id \in ModuleIds, m \in Manifests : AddImport(id, m)

InitRegistry ==
    /\ IslandsIdle
    /\ BuildIdle
    /\ WalkIdle
    /\ ClassifyIdle
    /\ RouterIdle
    /\ clientIslandImports = <<>>
    /\ imports = <<>>
    /\ exported = [id \in ModuleIds |-> <<>>]
    /\ transforms = 0
    /\ call = [op |-> "none"]
    /\ entriesToImports = <<>>
    /\ codeOutput = <<>>
    /\ clientCode = <<>>

SpecRegistry == InitRegistry /\ [][NextRegistry]_vars

----------------------------------------------------------------------------
(* Claims about the import registries *)

RecordsOf(m, k) == Cardinality({j \in 1..Len(m) : m[j][1] = k})

\* C14: addImport stores exactly one record per path, the one createClientImport
\* derives from the arguments, and a second call with the same path and
\* export names leaves the registry as the first call left it
C14_RegistrationIsIdempotent ==
    [][(call'.op = "addImport" /\ transforms' # transforms) =>
          /\ RecordsOf(imports', call'.id) = 1
          /\ get(imports', call'.id)
                = createClientImport(call'.id, call'.exported)
          /\ call'.repeated => imports' = imports]_vars

\* addImport was called twice in a row with the same path and export names
C14_Witness ==
    /\ call.op = "addImport"
    /\ call.repeated
    /\ call.exported # <<>>
    /\ has(imports, call.id)

\* C15: no call removes a registered path from either registry, and an ssr
\* transform that finds no island export leaves the module's record in place
C15_RegisteredPathsOnlyGrow ==
    [][/\ keys(clientIslandImports) \subseteq keys(clientIslandImports')
       /\ keys(imports) \subseteq keys(imports')
       /\ (call'.op = "transform" /\ transforms' # transforms
              /\ call'.exported = <<>>) =>
             clientIslandImports' = clientIslandImports]_vars

\* a registered module was transformed again and had no island export
\* left, while another module is registered too
C15_Witness ==
    /\ call.op = "transform"
    /\ call.ssr
    /\ call.exported = <<>>
    /\ has(clientIslandImports, call.id)
    /\ Len(clientIslandImports) >= 2

\* every record of m is the one derived for its own key
OwnRecords(m, plugin) ==
    \A j \in 1..Len(m) :
        /\ m[j][2] = IF plugin = "islands"
                     THEN createClientIslandImport(m[j][1], m[j][2].names)
                     ELSE createClientImport(m[j][1], m[j][2].names)
        /\ RecordsOf(m, m[j][1]) = 1

\* C16: whatever the order of the calls, every module whose latest manifest
\* is non-empty is mapped to the record derived from that manifest, and
\* every record in a registry is the one derived for its own path
C16_RegistryIndependentOfOrder ==
    /\ \A id \in DOMAIN exported :
          exported[id] # <<>> =>
             /\ has(clientIslandImports, id)
             /\ get(clientIslandImports, id)
                   = createClientIslandImport(id, exported[id])
    /\ OwnRecords(clientIslandImports, "islands")
    /\ OwnRecords(imports, "bundle")

\* two modules with island exports were transformed, the one registered
\* first being transformed last
C16_Witness ==
    /\ Len(clientIslandImports) = 2
    /\ call.op = "transform"
    /\ call.exported # <<>>
    /\ clientIslandImports[1][1] = call.id
    /\ \A id \in keys(clientIslandImports) : exported[id] # <<>>

----------------------------------------------------------------------------
(* createClientCode: bundlePlugin.ts:586-620 and the islands plugin's own  *)
(* version, src/islands/vite.ts.  The result holds, per entry and for the  *)
(* global variant, the lists handed to bundle.stringify / provider.bundle. *)

\* the registered imports of an entry; unregistered ids are skipped (line 600)
registeredOf(registry, importedIds_) ==
    LET known == SelectSeq(importedIds_, LAMBDA id : has(registry, id))
    IN  [k \in 1..Len(known) |-> get(registry, known[k])]

\* the per-entry loop both versions share (lines 594-612)
entryVariants(entriesToImports_, registry) ==
    [k \in 1..Len(entriesToImports_) |->
        LET found == registeredOf(registry, entriesToImports_[k][2])
        IN  [entry |-> entriesToImports_[k][1],
             imports |-> Flatten([j \in 1..Len(found) |-> found[j].code]),
             variables |-> Flatten([j \in 1..Len(found) |->
                                       exportMapValues(found[j])])]]

\* [...new Set(list)]
newSet(list) == RemoveDuplicates(list, {})

\* createClientCode, bundlePlugin.ts:586-620
createClientCode(entriesToImports_, registry) ==
    LET entries == entryVariants(entriesToImports_, registry)
        globalImports ==
            Flatten([k \in 1..Len(entries) |-> entries[k].imports])
        globalVariables ==
            Flatten([k \in 1..Len(entries) |-> entries[k].variables])
    IN  [made |-> TRUE,
         entries |-> entries,
         global |-> [imports |-> newSet(globalImports),
                     variables |-> newSet(globalVariables)]]

\* createClientCode of the islands plugin, src/islands/vite.ts
createIslandsClientCode(entriesToIslands, registry) ==
    LET entries == entryVariants(entriesToIslands, registry)
        globalImports ==
            Flatten([k \in 1..Len(entries) |-> entries[k].imports])
        globalVariables ==
            Flatten([k \in 1..Len(entries) |-> entries[k].variables])
    IN  [made |-> TRUE,
         entries |-> entries,
         global |-> [imports |-> globalImports,
                     variables |-> globalVariables]]

NoCode == [made |-> FALSE, entries |-> <<>>,
           global |-> [imports |-> <<>>, variables |-> <<>>]]

\* what the walkers return for a registry: per entry the registered ids it
\* reaches, entries that reach none being left out (lines 515 and 558)
entriesTo(registry) ==
    LET registered(ids) == SelectSeq(ids, LAMBDA id : has(registry, id))
        kept == SelectSeq(entriesToImports,
                          LAMBDA e : registered(e[2]) # <<>>)
    IN  [k \in 1..Len(kept) |-> <<kept[k][1], registered(kept[k][2])>>]

\* bundlePlugin: buildEnd (line 681) or the dev load hook (line 737)
CreateClientCode ==
    /\ entriesToImports # <<>>
    /\ ~clientCode.made
    /\ clientCode' = createClientCode(entriesTo(imports), imports)
    /\ UNCHANGED <<clientIslandImports, imports, exported, transforms, call,
                   entriesToImports, codeOutput, ivars, bvars, wvars, cvars, fvars>>

\* islands plugin: buildEnd or the dev load hook
CreateIslandsClientCode ==
    /\ entriesToImports # <<>>
    /\ ~codeOutput.made
    /\ codeOutput' = createIslandsClientCode(entriesTo(clientIslandImports),
                                             clientIslandImports)
    /\ UNCHANGED <<clientIslandImports, imports, exported, transforms, call,
                   entriesToImports, clientCode, ivars, bvars, wvars, cvars, fvars>>

NextClientCode == CreateClientCode \/ CreateIslandsClientCode

\* the ids transform accepts, in a fixed order
JsIds == <<<<"/src/Counter", "tsx">>, <<"/src/Menu", "JSX">>>>

EntryOrder == <<"/pages/index.tsx", "/pages/about.tsx">>

\* the lists a walker can return: distinct ids
ImportLists == {l \in SeqsUpTo(Range(JsIds), Len(JsIds)) :
                   l # <<>> /\ NoDuplicates(l)}

\* every entries-to-imports map over a subset of the entries
EntriesToImports ==
    {[k \in 1..Len(es) |-> <<es[k], f[es[k]]>>] :
        es \in {SelectSeq(EntryOrder, LAMBDA e : e \in S) :
                   S \in (SUBSET Range(EntryOrder)) \ {{}}},
        f \in [Range(EntryOrder) -> ImportLists]}

\* the registries after each module of JsIds was registered with the
\* manifest m gives it; the islands plugin registers non-empty manifests only
InitClientCode ==
    /\ IslandsIdle
    /\ BuildIdle
    /\ WalkIdle
    /\ ClassifyIdle
    /\ RouterIdle
    /\ \E m \in [Range(JsIds) -> Manifests] :
          /\ exported = m
          /\ clientIslandImports =
                LET ids == SelectSeq(JsIds, LAMBDA id : m[id] # <<>>)
                IN  [k \in 1..Len(ids) |->
                        <<ids[k], createClientIslandImport(ids[k], m[ids[k]])>>]
          /\ imports =
                [k \in 1..Len(JsIds) |->
                    <<JsIds[k], createClientImport(JsIds[k], m[JsIds[k]])>>]
    /\ transforms = MaxTransforms
    /\ call = [op |-> "none"]
    /\ entriesToImports \in EntriesToImports
    /\ codeOutput = NoCode
    /\ clientCode = NoCode

SpecClientCode == InitClientCode /\ [][NextClientCode]_vars

\* the global variant's lists hold no duplicate and hold every line and
\* alias of every entry's variant
GlobalVariantCoversOnce(out) ==
    out.made =>
        /\ NoDuplicates(out.global.imports)
        /\ NoDuplicates(out.global.variables)
        /\ \A k \in 1..Len(out.entries) :
              /\ Range(out.entries[k].imports) \subseteq Range(out.global.imports)
              /\ Range(out.entries[k].variables)
                    \subseteq Range(out.global.variables)

\* C13: in what createClientCode returns, of the bundle plugin and of the
\* islands plugin alike, the global variant lists each import line once and
\* each alias once and holds every line and alias of every entry's variant
C13_GlobalVariantDeduplicated ==
    GlobalVariantCoversOnce(clientCode) /\ GlobalVariantCoversOnce(codeOutput)

----------------------------------------------------------------------------
(* isNodeIsland applied to the function, arrow and class nodes that        *)
(* processIslands hands it (src/islands/index.ts:280, 304, 343, 380, 430)  *)

StringLiteral(v) == Expr("Literal", v, NoName, {})

CallTo(calleeName) == Expr("CallExpression", "", calleeName, {})

\* callee names of the calls a body makes; NoName is a member callee such
\* as React.useState, whose callee has no name
Callees ==
    { <<"u","s","e","S","t","a","t","e">>,
      <<"c","a","u","s","e","E","f","f","e","c","t">>,
      <<"u","s","e","r">>,
      <<"u","s","e">>,
      <<"f","e","t","c","h">>,
      NoName }

\* what a body returns: markup, a compiled markup call, other expressions
ReturnArguments ==
    { JSXElement,
      \* <Counter start={useState(0)}/>
      Expr("JSXElement", "", NoName, {<<"u","s","e","S","t","a","t","e">>}),
      Expr("JSXFragment", "", NoName, {}),
      CallTo(<<"_","j","s","x">>),
      CallTo(<<"j","s","x","D","E","V">>),
      CallTo(<<"h">>),
      CallTo(NoName),
      StringLiteral("text") }

\* `return x`, `return` and no return statement
Returns ==
    {<<ReturnStatement(e)>> : e \in ReturnArguments}
        \cup {<<ReturnStatement(Null)>>, <<>>}

Directives == {<<>>, <<ExpressionStatement(StringLiteral("use island"))>>,
               <<ExpressionStatement(StringLiteral("use strict"))>>}

CallStatements == {<<>>} \cup {<<ExpressionStatement(CallTo(c))>> : c \in Callees}

\* function bodies: an optional directive, an optional call, the return
Bodies == {d \o c \o r : d \in Directives, c \in CallStatements, r \in Returns}

\* class bodies: an optional componentDidMount, an optional render method
ClassBodies ==
    {m \o r : m \in {<<>>, <<MethodDefinition("componentDidMount", <<>>)>>},
              r \in {<<>>} \cup {<<MethodDefinition("render", b)>> : b \in Bodies}}

\* the nodes of type FunctionNodes (lines 29-36)
FunctionNodes ==
    {Function(t, NoName, b) :
        t \in {"FunctionDeclaration", "FunctionExpression",
               "ArrowFunctionExpression"}, b \in Bodies}
    \cup {[type |-> "ArrowFunctionExpression", id |-> Identifier(NoName),
           body |-> e] : e \in ReturnArguments}
    \cup {Class(t, NoName, ms) :
            t \in {"ClassDeclaration", "ClassExpression"}, ms \in ClassBodies}

\* processIslands asks whether a node is an island
IsNodeIsland ==
    /\ island = <<>>
    /\ island' = <<isNodeIsland(islandNode)>>
    /\ UNCHANGED <<islandNode, ivars, bvars, wvars, rvars, fvars>>

NextClassify == IsNodeIsland

InitClassify ==
    /\ IslandsIdle
    /\ BuildIdle
    /\ WalkIdle
    /\ RegistryIdle
    /\ RouterIdle
    /\ islandNode \in FunctionNodes
    /\ island = <<>>

SpecClassify == InitClassify /\ [][NextClassify]_vars

----------------------------------------------------------------------------
(* Claims about isNodeIsland *)

IsClass(n) == n.type \in {"ClassDeclaration", "ClassExpression"}

\* the statements of the node's body; for a class, of its render method
BodyStatements(n) ==
    IF IsClass(n)
    THEN LET rs == SelectSeq(n.body.body, LAMBDA m : m.key.name = "render")
         IN  IF rs = <<>> THEN <<>> ELSE rs[1].value.body.body
    ELSE IF n.body.type = "BlockStatement" THEN n.body.body
    ELSE <<>>

\* what the node returns: an arrow's expression body, else the argument of
\* the body's return statement
ReturnedExpression(n) ==
    IF ~IsClass(n) /\ n.body.type # "BlockStatement" THEN n.body
    ELSE LET rs == SelectSeq(BodyStatements(n),
                             LAMBDA x : x.type = "ReturnStatement")
         IN  IF rs = <<>> THEN Null ELSE rs[1].argument

FactoryNames ==
    { <<"j","s","x">>, <<"j","s","x","s">>, <<"j","s","x","D","E","V">>,
      <<"_","j","s","x">>, <<"_","j","s","x","s">>,
      <<"_","j","s","x","D","E","V">> }

IsMarkup(e) ==
    /\ e # Null
    /\ \/ e.type \in {"JSXElement", "JSXFragment"}
       \/ e.type = "CallExpression" /\ e.callee \in FactoryNames

StartsWithUseIsland(n) ==
    /\ BodyStatements(n) # <<>>
    /\ BodyStatements(n)[1].type = "ExpressionStatement"
    /\ BodyStatements(n)[1].expression.type = "Literal"
    /\ BodyStatements(n)[1].expression.value = "use island"

HasComponentDidMount(n) ==
    /\ IsClass(n)
    /\ \E k \in 1..Len(n.body.body) :
          n.body.body[k].key.name = "componentDidMount"

\* the name starts with 'use' and an uppercase letter follows
IsHookName(c) ==
    /\ Len(c) >= 4
    /\ SubSeq(c, 1, 3) = <<"u", "s", "e">>
    /\ c[4] \in Upper

CallsHook(n) == \E c \in walkerCallees(n) : IsHookName(c)

Returned == island # <<>>

C18_UseIslandOptIn ==
    (/\ Returned
     /\ IsMarkup(ReturnedExpression(islandNode))
     /\ StartsWithUseIsland(islandNode)) => island[1] = TRUE

\* isNodeIsland has answered for a class expression that opts in with
\* "use island" and has neither a hook call nor componentDidMount
C18_Witness ==
    /\ Returned
    /\ islandNode.type = "ClassExpression"
    /\ IsMarkup(ReturnedExpression(islandNode))
    /\ StartsWithUseIsland(islandNode)
    /\ walkerCallees(islandNode) \subseteq FactoryNames
    /\ ~HasComponentDidMount(islandNode)

\* C19: a class, declaration or expression, whose render method returns
\* markup and which declares componentDidMount is an island
C19_ComponentDidMountOptIn ==
    (/\ Returned
     /\ IsClass(islandNode)
     /\ IsMarkup(ReturnedExpression(islandNode))
     /\ HasComponentDidMount(islandNode)) => island[1] = TRUE

\* C20: without "use island" and componentDidMount, a node that returns
\* markup is an island exactly when it calls a function whose name starts
\* with 'use' followed by an uppercase letter
C20_HookNamesAreAnchored ==
    (/\ Returned
     /\ IsMarkup(ReturnedExpression(islandNode))
     /\ ~StartsWithUseIsland(islandNode)
     /\ ~HasComponentDidMount(islandNode)) =>
        (island[1] = TRUE <=> CallsHook(islandNode))

IsExpressionArrow(n) ==
    n.type = "ArrowFunctionExpression" /\ n.body.type # "BlockStatement"

\* the arrow `() => { return e }`
BlockArrowReturning(e) ==
    Function("ArrowFunctionExpression", NoName, <<ReturnStatement(e)>>)

\* C21: for an arrow with an expression body, functionParts yields that
\* expression as the return expression, and the arrow is classified as the
\* block-bodied arrow returning the same expression is
C21_ExpressionArrowAsBlockArrow ==
    (Returned /\ IsExpressionArrow(islandNode)) =>
        /\ functionParts(islandNode).isParts
        /\ functionParts(islandNode).returnExpression = islandNode.body
        /\ island[1] = isNodeIsland(BlockArrowReturning(islandNode.body))

----------------------------------------------------------------------------
(* File router, src/file-router/routes.ts.  A file is the list of its path  *)
(* segments below `dir`; a segment is a list of string fragments, so that   *)
(* brackets, the spread dots, a leading underscore and the extension can be *)
(* told apart.  A URL path is its list of segments, "/" being one empty     *)
(* segment.                                                                 *)

ROUTE_COMPLEXITY == [static |-> 1, single |-> 2, multiple |-> 3]

\* line 179
maxDirectoryDepth == 100

\* `COMPLEXITY + (i / -maxDirectoryDepth)` (lines 181 and 185); an order is
\* kept multiplied by maxDirectoryDepth, which leaves every comparison as it is
orderAt(complexity, i) == complexity * maxDirectoryDepth - i

Extensions == {".ts", ".tsx"}

\* filepathExt.replace(extensionMatch, ''), for a file that has an extension
removeExtension(file) ==
    LET lastSeg == file[Len(file)]
    IN  IF lastSeg # <<>> /\ lastSeg[Len(lastSeg)] \in Extensions
        THEN [file EXCEPT ![Len(file)] = SubSeq(lastSeg, 1, Len(lastSeg) - 1)]
        ELSE file

\* filepath.split('/').slice(1)
pathPartsOf(file) == removeExtension(file)

\* isDynamicSegment = /\[.+\]/
isDynamicSegment(part) ==
    \E i, j \in 1..Len(part) : part[i] = "[" /\ part[j] = "]" /\ j > i + 1

\* part.startsWith('[...')
startsWithSpread(part) == Len(part) >= 2 /\ part[1] = "[" /\ part[2] = "..."

\* catchAllSectionMatch = /^\[\.{3}.+\]/
catchAllSectionMatch(part) ==
    startsWithSpread(part) /\ \E j \in 4..Len(part) : part[j] = "]"

\* part.startsWith('_')
startsWithUnderscore(part) == part # <<>> /\ part[1] = "_"

\* String.prototype.toLowerCase over the fragments that occur
lowerCase(part) ==
    [k \in 1..Len(part) |-> CASE part[k] = "About" -> "about"
                              [] part[k] = "Slug" -> "slug"
                              [] OTHER -> part[k]]

\* part.replace(/^\[(\.{3})?/, '').replace(/\]$/, '')
stripBrackets(part) ==
    LET a == IF part # <<>> /\ part[1] = "["
             THEN IF Len(part) >= 2 /\ part[2] = "..."
                  THEN SubSeq(part, 3, Len(part))
                  ELSE Tail(part)
             ELSE part
    IN  IF a # <<>> /\ a[Len(a)] = "]" THEN SubSeq(a, 1, Len(a) - 1) ELSE a

\* one `/text`, `/:name` or `/*name` of a routepath
PathToken(kind, name) == [kind |-> kind, name |-> name]

\* the body of the loop of createRoute (lines 173-215), from index i on
RECURSIVE createRouteFrom(_, _)
createRouteFrom(route, i) ==
    IF i >= Len(route.parts) THEN route
    ELSE
    LET part == route.parts[i + 1]
        isDynamicPart == isDynamicSegment(part)
        r1 == IF /\ route.order < orderAt(ROUTE_COMPLEXITY.single, 0)
                 /\ isDynamicPart
                 /\ ~startsWithSpread(part)
              THEN [route EXCEPT !.order = orderAt(ROUTE_COMPLEXITY.single, i),
                                 !.type = "single"]
              ELSE route
        r2 == IF /\ r1.order < orderAt(ROUTE_COMPLEXITY.multiple, 0)
                 /\ startsWithSpread(part)
              THEN [r1 EXCEPT !.order = orderAt(ROUTE_COMPLEXITY.multiple, i),
                              !.type = "multiple"]
              ELSE r1
        normalizedPart ==
            lowerCase(IF isDynamicPart THEN stripBrackets(part) ELSE part)
        isIndex == ~isDynamicPart /\ normalizedPart = <<"index">>
        first == i = 0
        last == i = Len(route.parts) - 1
        r3 == IF isIndex /\ first
              THEN [r2 EXCEPT !.routepath = Append(@, PathToken("static", <<>>))]
              ELSE r2
        r4 == IF isIndex /\ last THEN r3
              ELSE IF isDynamicPart
              THEN IF catchAllSectionMatch(part)
                   THEN [r3 EXCEPT
                           !.requiredParams =
                               MapSet(@, normalizedPart, "multiple"),
                           !.routepath =
                               Append(@, PathToken("wildcard", normalizedPart))]
                   ELSE [r3 EXCEPT
                           !.requiredParams =
                               MapSet(@, normalizedPart, "single"),
                           !.routepath =
                               Append(@, PathToken("param", normalizedPart))]
              ELSE [r3 EXCEPT
                      !.routepath = Append(@, PathToken("static", normalizedPart))]
    IN  createRouteFrom(r4, i + 1)

\* createRoute, lines 158-225
createRoute(name, absPath, pathParts) ==
    createRouteFrom([name |-> name,
                     module |-> absPath,
                     routepath |-> <<>>,
                     parts |-> pathParts,
                     requiredParams |-> <<>>,
                     type |-> "static",
                     order |-> orderAt(ROUTE_COMPLEXITY.static, 0),
                     error |-> <<>>], 0)

\* path.join(...parts): "." when nothing is left
joinParts(parts) ==
    LET n == normalizeSegs(FALSE, parts, <<>>)
    IN  IF n = <<>> THEN <<Dot>> ELSE n

\* parts.slice(0, -1)
withoutLast(parts) == SubSeq(parts, 1, Len(parts) - 1)

\* lines 94-98
ErrorRoute(absPath, pathParts) ==
    [module |-> absPath, parts |-> pathParts,
     dir |-> joinParts(withoutLast(pathParts))]

\* findErrorRoute, lines 229-236: the first error route of the directory of
\* `parts`.  When there is none, line 235 calls findErrorRoute on the parent
\* directory and drops what the call returns, so the result is undefined
\* (the empty list here).
findErrorRoute(errorRoutes_, parts) ==
    LET dirPath == joinParts(withoutLast(parts))
        found == SelectSeq(errorRoutes_, LAMBDA e : e.dir = dirPath)
    IN  IF found # <<>> THEN <<found[1]>> ELSE <<>>

\* lines 92-99
isErrorRoute(pathParts) ==
    pathParts # <<>> /\ pathParts[Len(pathParts)] = <<"_", "error">>

\* lines 104-105
ignore(pathParts) ==
    \E k \in 1..Len(pathParts) : startsWithUnderscore(pathParts[k])

\* the errorRoutes list after the loop over files (lines 77-108)
errorRoutesOf(files_) ==
    LET es == SelectSeq(files_, LAMBDA f : isErrorRoute(pathPartsOf(f)))
    IN  [k \in 1..Len(es) |-> ErrorRoute(es[k], pathPartsOf(es[k]))]

\* the routes list after the loop over files (lines 77-108)
routesOf(files_) ==
    LET fs_ == SelectSeq(files_, LAMBDA f : ~ignore(pathPartsOf(f)))
    IN  [k \in 1..Len(fs_) |-> createRoute(fs_[k], fs_[k], pathPartsOf(fs_[k]))]

\* lines 111-114
withErrors(routes_, errorRoutes_) ==
    LET defaultError == findErrorRoute(errorRoutes_, <<<<"index">>>>)
    IN  [k \in 1..Len(routes_) |->
            LET own == findErrorRoute(errorRoutes_, routes_[k].parts)
            IN  [routes_[k] EXCEPT
                    !.error = IF own # <<>> THEN own ELSE defaultError]]

\* a route put at the end, whatever its order
insertByOrder_AtEnd(sorted, route) == Append(sorted, route)

\* a route put behind the routes of a sorted list that do not come after it
insertByOrder(sorted, route) ==
    LET before == {k \in 0..Len(sorted) :
                      \A j \in 1..k : sorted[j].order <= route.order}
        at == CHOOSE k \in before : \A j \in before : j <= k
    IN  SubSeq(sorted, 1, at) \o <<route>> \o SubSeq(sorted, at + 1, Len(sorted))

\* routes.sort((a, b) => Math.sign(a.order - b.order)) (line 116): stable
RECURSIVE sortRoutes(_)
sortRoutes(routes_) ==
    IF routes_ = <<>> THEN <<>>
    ELSE insertByOrder(sortRoutes(withoutLast(routes_)), routes_[Len(routes_)])

\* what `route.match` (path-to-regexp's match, line 217) returns for a list of
\* URL segments: no element for `false`, else one element, the params.
\* Static text is compared without regard to case, `:name` takes one
\* non-empty segment, `*name` takes one or more segments, as many as it can.
RECURSIVE matchTokens(_, _)
matchTokens(tokens, segs) ==
    IF tokens = <<>> THEN (IF segs = <<>> THEN <<<<>>>> ELSE <<>>)
    ELSE IF segs = <<>> THEN <<>>
    ELSE
    LET token == Head(tokens)
    IN  IF token.kind = "static"
        THEN IF lowerCase(Head(segs)) = token.name
             THEN matchTokens(Tail(tokens), Tail(segs))
             ELSE <<>>
        ELSE IF token.kind = "param"
        THEN LET rest == matchTokens(Tail(tokens), Tail(segs))
             IN  IF Head(segs) = <<>> \/ rest = <<>> THEN <<>>
                 ELSE <<<<[name |-> token.name, value |-> <<Head(segs)>>]>>
                        \o rest[1]>>
        ELSE LET takes == {k \in 1..Len(segs) :
                              /\ Head(segs) # <<>>
                              /\ matchTokens(Tail(tokens),
                                             SubSeq(segs, k + 1, Len(segs))) # <<>>}
             IN  IF takes = {} THEN <<>>
                 ELSE LET k == CHOOSE m \in takes : \A n \in takes : n <= m
                      IN  <<<<[name |-> token.name,
                               value |-> SubSeq(segs, 1, k)]>>
                            \o matchTokens(Tail(tokens),
                                           SubSeq(segs, k + 1, Len(segs)))[1]>>

\* route.match(url)
match(route, segs) == matchTokens(route.routepath, segs)

\* path.replace(/\?.*$/, '')
withoutQuery(path) == path.segs

\* the MatchedRoute template (lines 118-121)
template == [route |-> <<>>, params |-> <<>>]

\* matchRoute, lines 131-150
matchRoute(routes_, path, route) ==
    LET segs == withoutQuery(path)
        hits == SelectSeq(routes_, LAMBDA r : match(r, segs) # <<>>)
    IN  IF route # <<>> /\ match(route[1], segs) # <<>>
        THEN [route |-> route, params |-> match(route[1], segs)[1]]
        ELSE IF hits # <<>>
        THEN [route |-> <<hits[1]>>, params |-> match(hits[1], segs)[1]]
        ELSE template

\* buildRoutes, lines 63-155 (no remapFiles)
BuildRoutes ==
    /\ fpc = "idle"
    /\ errorRoutes' = errorRoutesOf(files)
    /\ routes' = sortRoutes(withErrors(routesOf(files), errorRoutesOf(files)))
    /\ fpc' = "built"
    /\ UNCHANGED <<files, request, matchedRoute, ivars, bvars, wvars, rvars, cvars>>

\* a call of the returned matchRoute
MatchRoute(path, route) ==
    /\ fpc \in {"built", "matched"}
    /\ request' = [path |-> path, route |-> route]
    /\ matchedRoute' = matchRoute(routes, path, route)
    /\ fpc' = "matched"
    /\ UNCHANGED <<files, routes, errorRoutes, ivars, bvars, wvars, rvars, cvars>>

\* the file of a route segment list, with its extension
RouteFile(segs, ext) ==
    [segs EXCEPT ![Len(segs)] = Append(@, ext)]

Slug == <<"[", "slug", "]">>

All == <<"[", "...", "all", "]">>

\* the files under `dir`
RouteFiles ==
    { RouteFile(<<<<"index">>>>, ".ts"),
      RouteFile(<<Slug>>, ".ts"),
      RouteFile(<<All>>, ".ts"),
      RouteFile(<<<<"_", "error">>>>, ".ts"),
      RouteFile(<<<<"books">>, <<"about">>>>, ".tsx"),
      RouteFile(<<<<"books">>, Slug>>, ".ts"),
      RouteFile(<<<<"books">>, All>>, ".ts"),
      RouteFile(<<<<"books">>, <<"_", "error">>>>, ".ts"),
      RouteFile(<<<<"books">>, <<"new">>, <<"index">>>>, ".ts") }

UrlPath(segs, query) == [segs |-> segs, query |-> query]

\* the request paths
UrlPaths ==
    { UrlPath(<<<<>>>>, ""),
      UrlPath(<<<<"foo">>>>, "?page=2"),
      UrlPath(<<<<"books">>, <<"About">>>>, ""),
      UrlPath(<<<<"books">>, <<"foo">>>>, ""),
      UrlPath(<<<<"books">>, <<"new">>>>, "") }

NextRoutes ==
    \/ BuildRoutes
    \/ \E path \in UrlPaths, route \in {<<>>} \cup {<<r>> : r \in Range(routes)} :
          MatchRoute(path, route)

InitRoutes ==
    /\ IslandsIdle
    /\ BuildIdle
    /\ WalkIdle
    /\ RegistryIdle
    /\ ClassifyIdle
    /\ files \in {l \in SeqsUpTo(RouteFiles, MaxFiles) : NoDuplicates(l)}
    /\ routes = <<>>
    /\ errorRoutes = <<>>
    /\ request = <<>>
    /\ matchedRoute = <<>>
    /\ fpc = "idle"

SpecRoutes == InitRoutes /\ [][NextRoutes]_vars

----------------------------------------------------------------------------
(* Claims about the file router *)

IsParamSegment(part) ==
    Len(part) >= 3 /\ part[1] = "[" /\ part[2] # "..." /\ part[Len(part)] = "]"

IsSpreadSegment(part) ==
    Len(part) >= 4 /\ part[1] = "[" /\ part[2] = "..." /\ part[Len(part)] = "]"

HasSpread(route) == \E k \in 1..Len(route.parts) : IsSpreadSegment(route.parts[k])

StaticOnly(route) ==
    \A k \in 1..Len(route.parts) :
        ~IsSpreadSegment(route.parts[k]) /\ ~IsParamSegment(route.parts[k])

\* the routes that match the path of the latest call
Matching == {r \in Range(routes) : match(r, withoutQuery(request.path)) # <<>>}

\* the latest call returned a static route if a static route matches, and a
\* route without spread segment if one matches
PrecedenceKept ==
    /\ matchedRoute.route # <<>>
    /\ (\E r \in Matching : StaticOnly(r)) => StaticOnly(matchedRoute.route[1])
    /\ (\E r \in Matching : ~HasSpread(r)) => ~HasSpread(matchedRoute.route[1])

\* C29: for every URL that more than one route matches, matchRoute returns
\* a static route in preference to one with a [param] segment, and a route
\* without [...spread] segment in preference to one with such a segment
C29_RoutePrecedence ==
    (fpc = "matched" /\ Cardinality(Matching) > 1) => PrecedenceKept

\* C29 as amended: the same, for a call without a route argument or with
\* one that does not match the URL
C29_RoutePrecedenceWithoutRoute ==
    (/\ fpc = "matched"
     /\ Cardinality(Matching) > 1
     /\ request.route = <<>> \/ request.route[1] \notin Matching) =>
        PrecedenceKept

\* a call without route argument for a URL that a static route, a route with
\* a [param] segment and a route with a [...spread] segment match, the
\* static one being the last of the files
C29_Witness ==
    /\ fpc = "matched"
    /\ request.route = <<>>
    /\ \E r \in Matching : StaticOnly(r) /\ files[Len(files)] = r.module
    /\ \E r \in Matching : HasSpread(r)
    /\ \E r \in Matching : ~HasSpread(r) /\ ~StaticOnly(r)
    /\ StaticOnly(matchedRoute.route[1])

\* the `_error` file of a directory, if the files hold one
ErrorFileIn(dirParts) ==
    {f \in Range(files) : pathPartsOf(f) = Append(dirParts, <<"_", "error">>)}

\* the `_error` files of the nearest directory, from dirParts upwards,
\* that has one
RECURSIVE NearestError(_)
NearestError(dirParts) ==
    IF ErrorFileIn(dirParts) # {} THEN ErrorFileIn(dirParts)
    ELSE IF dirParts = <<>> THEN {}
    ELSE NearestError(withoutLast(dirParts))

ErrorModuleOf(route) ==
    IF route.error = <<>> THEN {} ELSE {route.error[1].module}

\* C30: the error handler of every route is the `_error` module of the
\* nearest directory, from the route file's own directory up to the router
\* root, that has one
C30_NearestErrorHandler ==
    fpc \in {"built", "matched"} =>
        \A r \in Range(routes) :
            ErrorModuleOf(r) = NearestError(withoutLast(r.parts))

====
